---- MODULE Spec2Model ----
(***************************************************************************)
(* Model of the v0 CLI: the configuration store and its resolution        *)
(* helpers (utils/config.ts), the output renderer (utils/output.ts) and   *)
(* the command handlers that combine them (commands/*.ts).                 *)
(*                                                                         *)
(* A JavaScript string is a sequence of one-character strings; the value  *)
(* undefined is the one-element sequence Undefined, which is no string.   *)
(***************************************************************************)
EXTENDS Integers, Sequences, FiniteSets, TLC

VARIABLES
    store,        \* the Conf store file: field -> string, Undefined when unset
    promptedKey,  \* history: the key the last prompt saved, Undefined once the stored key is rewritten
    call,         \* the last call of a utils/config.ts function and what it returned
    run,          \* the last command invocation and what it did
    render,       \* the last formatOutput call and what it printed
    proc          \* the running process: its command, its position, what it wrote

vars == <<store, promptedKey, call, run, render, proc>>

(***************************************************************************)
(* Bounds of the model.                                                    *)
(***************************************************************************)
\* longest base URL passed, exported or stored
MaxLen == 2

\* longest list given to formatOutput
MaxItems == 2

\* longest API key passed, exported, stored or typed at the prompt
MaxKeyLen == 1

(***************************************************************************)
(* JavaScript values and operators.                                        *)
(***************************************************************************)
Undefined == <<"undefined">>

\* the characters strings are made of: a letter and the blank
Chars == {"a", " "}

RECURSIVE StringsUpTo(_)
StringsUpTo(n) ==
    IF n = 0 THEN {<<>>}
    ELSE LET shorter == StringsUpTo(n - 1)
         IN  shorter \cup {Append(s, c) : s \in {t \in shorter : Len(t) = n - 1}, c \in Chars}

\* base URLs, and the same with "not given"
Strings == StringsUpTo(MaxLen)
OptStrings == Strings \cup {Undefined}

\* API keys, and the same with "not given"
KeyStrings == StringsUpTo(MaxKeyLen)
OptKeyStrings == KeyStrings \cup {Undefined}

\* JavaScript truthiness of a string-or-undefined: "" and undefined are falsy
Truthy(x) == x # Undefined /\ x # <<>>

\* a || b
Or(a, b) == IF Truthy(a) THEN a ELSE b

\* a ?? b
Nullish(a, b) == IF a = Undefined THEN b ELSE a

IsSpace(c) == c = " "

\* String.prototype.trim: drop the blanks at both ends
RECURSIVE TrimStart(_)
TrimStart(s) ==
    IF s # <<>> /\ IsSpace(Head(s)) THEN TrimStart(Tail(s)) ELSE s

RECURSIVE TrimEnd(_)
TrimEnd(s) ==
    IF s # <<>> /\ IsSpace(s[Len(s)]) THEN TrimEnd(SubSeq(s, 1, Len(s) - 1)) ELSE s

Trim(s) == TrimEnd(TrimStart(s))

(***************************************************************************)
(* utils/config.ts: the Conf store and its schema.                         *)
(***************************************************************************)
ConfigKeys == {"apiKey", "defaultProject", "baseUrl", "outputFormat"}

FmtJson == <<"j", "s", "o", "n">>
FmtTable == <<"t", "a", "b", "l", "e">>
FmtYaml == <<"y", "a", "m", "l">>

\* schema.outputFormat.enum
OutputFormats == {FmtJson, FmtTable, FmtYaml}

\* a format name outside the enum
FmtXml == <<"x", "m", "l">>

\* schema.<key>.default
SchemaDefault(key) == IF key = "outputFormat" THEN FmtTable ELSE <<>>

\* the schema accepts any string for a string field and only the enum for
\* outputFormat
SchemaAccepts(key, value) ==
    /\ value # Undefined
    /\ key = "outputFormat" => value \in OutputFormats

\* a store file holding no field at all
EmptyStore == [k \in ConfigKeys |-> Undefined]

\* a store file in which the schema defaults have been materialised
DefaultStore == [k \in ConfigKeys |-> SchemaDefault(k)]

\* config.get(key): the stored value, undefined when the file lacks the field
ConfGet(s, key) == s[key]

\* getConfig() without the check of the stored format against the enum
getConfig_FormatUnchecked(s) ==
    [apiKey |-> Nullish(ConfGet(s, "apiKey"), <<>>),
     defaultProject |-> Nullish(ConfGet(s, "defaultProject"), <<>>),
     baseUrl |-> Nullish(ConfGet(s, "baseUrl"), <<>>),
     outputFormat |-> Nullish(ConfGet(s, "outputFormat"), FmtTable)]

\* getConfig(), reading store s
getConfig(s) ==
    LET storedFormat == ConfGet(s, "outputFormat")
    IN  [apiKey |-> Nullish(ConfGet(s, "apiKey"), <<>>),
         defaultProject |-> Nullish(ConfGet(s, "defaultProject"), <<>>),
         baseUrl |-> Nullish(ConfGet(s, "baseUrl"), <<>>),
         outputFormat |-> IF Truthy(storedFormat) /\ storedFormat \in OutputFormats
                          THEN storedFormat
                          ELSE FmtTable]

\* a setConfig that writes the store back with the output format reset
setConfig_ResetsFormat(s, key, value) ==
    IF SchemaAccepts(key, value)
    THEN [threw |-> FALSE,
          store |-> [[s EXCEPT !["outputFormat"] = FmtTable] EXCEPT ![key] = value]]
    ELSE [threw |-> TRUE, store |-> s]

\* setConfig(key, value) on store s: config.set writes the one field, and
\* throws, writing nothing, when the schema rejects the value
setConfig(s, key, value) ==
    IF SchemaAccepts(key, value)
    THEN [threw |-> FALSE, store |-> [s EXCEPT ![key] = value]]
    ELSE [threw |-> TRUE, store |-> s]

\* a clearConfig() that leaves the API key in place
clearConfig_KeepsApiKey(s) ==
    {[EmptyStore EXCEPT !["apiKey"] = s["apiKey"]],
     [DefaultStore EXCEPT !["apiKey"] = s["apiKey"]]}

\* clearConfig(): config.clear() empties the store; depending on the Conf
\* release the schema defaults are written back or not
clearConfig(s) == {EmptyStore, DefaultStore}

\* the validate callback of the API key prompt: TRUE when the input is accepted
ValidateApiKeyInput(input) == ~(~Truthy(input) \/ Len(Trim(input)) = 0)

\* the answers the prompt can end with: inquirer asks again until validate
\* accepts the input
AcceptedAnswers == {a \in KeyStrings : ValidateApiKeyInput(a)}

\* the first line of ensureApiKey: preferredApiKey || process.env.V0_API_KEY
\* || getConfig().apiKey
FoundApiKey(s, preferredApiKey, envKey) ==
    Or(Or(preferredApiKey, envKey), getConfig(s).apiKey)

\* an ensureApiKey that returns the prompted key without saving it
ensureApiKey_NotSaved(s, preferredApiKey, envKey, answer) ==
    LET apiKey == FoundApiKey(s, preferredApiKey, envKey)
    IN  IF Truthy(apiKey)
        THEN [threw |-> FALSE, prompted |-> FALSE, apiKey |-> apiKey, store |-> s]
        ELSE [threw |-> answer = Undefined, prompted |-> TRUE, apiKey |-> answer,
              store |-> s]

\* ensureApiKey(preferredApiKey) with V0_API_KEY = envKey on store s; answer
\* is what the prompt resolves to when it is shown (Undefined: the prompt
\* rejects, no terminal)
ensureApiKey(s, preferredApiKey, envKey, answer) ==
    LET apiKey == FoundApiKey(s, preferredApiKey, envKey)
    IN  IF Truthy(apiKey)
        THEN [threw |-> FALSE, prompted |-> FALSE, apiKey |-> apiKey, store |-> s]
        ELSE IF answer = Undefined
        THEN [threw |-> TRUE, prompted |-> TRUE, apiKey |-> Undefined, store |-> s]
        ELSE LET w == setConfig(s, "apiKey", answer)
             IN  [threw |-> w.threw, prompted |-> TRUE,
                  apiKey |-> IF w.threw THEN Undefined ELSE answer,
                  store |-> w.store]

\* a resolveBaseUrl that lets the environment override the argument
resolveBaseUrl_EnvFirst(s, preferredBaseUrl, envUrl) ==
    LET candidate == Or(Or(envUrl, preferredBaseUrl), getConfig(s).baseUrl)
    IN  IF Truthy(candidate) /\ Len(Trim(candidate)) > 0 THEN candidate ELSE Undefined

\* resolveBaseUrl(preferredBaseUrl) with V0_BASE_URL = envUrl on store s
resolveBaseUrl(s, preferredBaseUrl, envUrl) ==
    LET candidate == Or(Or(preferredBaseUrl, envUrl), getConfig(s).baseUrl)
    IN  IF Truthy(candidate) /\ Len(Trim(candidate)) > 0 THEN candidate ELSE Undefined

(***************************************************************************)
(* Specification SpecConfig: the functions of utils/config.ts called in   *)
(* any order on one store, each with any arguments and environment.       *)
(***************************************************************************)
NoCall ==
    [op |-> "none", key |-> "", arg |-> Undefined, env |-> Undefined,
     result |-> Undefined, cfg |-> getConfig(EmptyStore), threw |-> FALSE,
     prompted |-> FALSE, saved |-> Undefined, before |-> EmptyStore]

NoRun ==
    [cmd |-> "none",
     g |-> [apiKey |-> Undefined, baseUrl |-> Undefined, output |-> Undefined],
     outputFlag |-> Undefined,
     env |-> [V0_API_KEY |-> Undefined, V0_BASE_URL |-> Undefined],
     answer |-> Undefined, sdk |-> "none",
     client |-> [created |-> FALSE, apiKey |-> Undefined, baseUrl |-> Undefined],
     format |-> Undefined, printer |-> "none", exitCode |-> 0, prompted |-> FALSE,
     before |-> EmptyStore]

NoRender ==
    [pending |-> FALSE, data |-> Undefined, format |-> Undefined, yaml |-> "ok",
     threw |-> FALSE, out |-> <<>>]

\* the arguments and options of a command line that gives none
NoOptions ==
    [projectId |-> Undefined, chatId |-> Undefined, versionId |-> Undefined,
     interactive |-> FALSE, projectName |-> Undefined, chatName |-> Undefined,
     force |-> FALSE, id |-> Undefined]

\* the local variables of a deploy action before it has set any
NoLocals ==
    [projectId |-> Undefined, chatId |-> Undefined, versionId |-> Undefined,
     defaultProject |-> <<>>, projects |-> <<>>, chats |-> <<>>,
     chatProjectId |-> Undefined, match |-> Undefined, answer |-> Undefined]

\* no command has started
NoProc ==
    [cmd |-> "none", pc |-> "idle", format |-> Undefined, yaml |-> "ok",
     console |-> <<>>, calls |-> <<>>, exitCode |-> 0, elapsed |-> 0,
     hasVersion |-> FALSE, deployed |-> FALSE, failed |-> FALSE,
     sdkError |-> FALSE, notReady |-> FALSE, rendered |-> FALSE,
     reads |-> 0, version |-> Undefined, sdk |-> <<>>,
     packageVersion |-> Undefined, argv |-> Undefined,
     opts |-> NoOptions, loc |-> NoLocals, asked |-> <<>>,
     cleared |-> FALSE, storeAsked |-> EmptyStore]

\* the values a caller passes to setConfig for each key
SetValues(key) ==
    CASE key = "outputFormat" -> OutputFormats \cup {FmtXml}
      [] key = "apiKey" -> KeyStrings
      [] OTHER -> {<<"a">>}

\* what a hand-edited store file can hold as outputFormat
FileFormats == OutputFormats \cup {FmtXml, <<>>, Undefined}

\* new Conf(...) on first use: no file yet
InitConfig ==
    /\ store \in {EmptyStore, DefaultStore}
    /\ promptedKey = Undefined
    /\ call = NoCall
    /\ run = NoRun
    /\ render = NoRender
    /\ proc = NoProc

GetConfigCall ==
    /\ call' = [NoCall EXCEPT !.op = "getConfig", !.cfg = getConfig(store),
                               !.before = store]
    /\ UNCHANGED <<store, promptedKey, run, render, proc>>

SetConfigCall ==
    \E key \in ConfigKeys : \E value \in SetValues(key) :
        LET w == setConfig(store, key, value)
        IN  /\ store' = w.store
            /\ promptedKey' = IF key = "apiKey" THEN Undefined ELSE promptedKey
            /\ call' = [NoCall EXCEPT !.op = "setConfig", !.key = key, !.arg = value,
                                       !.threw = w.threw,
                                       !.before = store]
            /\ UNCHANGED <<run, render, proc>>

ClearConfigCall ==
    \E cleared \in clearConfig(store) :
        /\ store' = cleared
        /\ promptedKey' = Undefined
        /\ call' = [NoCall EXCEPT !.op = "clearConfig", !.before = store]
        /\ UNCHANGED <<run, render, proc>>

\* the store file edited outside the program (the "stored out-of-band" case)
EditStoreFile ==
    \E value \in FileFormats :
        /\ store' = [store EXCEPT !["outputFormat"] = value]
        /\ call' = [NoCall EXCEPT !.op = "editFile", !.key = "outputFormat",
                                   !.arg = value, !.before = store]
        /\ UNCHANGED <<promptedKey, run, render, proc>>

EnsureApiKeyCall ==
    \E preferred \in OptKeyStrings, envKey \in OptKeyStrings :
      \* an answer is drawn only when the prompt is shown
      \E answer \in IF Truthy(FoundApiKey(store, preferred, envKey))
                     THEN {Undefined}
                     ELSE AcceptedAnswers \cup {Undefined} :
        LET r == ensureApiKey(store, preferred, envKey, answer)
        IN  /\ store' = r.store
            /\ promptedKey' = IF r.prompted /\ ~r.threw THEN r.apiKey ELSE promptedKey
            /\ call' = [NoCall EXCEPT !.op = "ensureApiKey", !.arg = preferred,
                                       !.env = envKey, !.result = r.apiKey,
                                       !.threw = r.threw, !.prompted = r.prompted,
                                       !.saved = promptedKey, !.before = store]
            /\ UNCHANGED <<run, render, proc>>

ResolveBaseUrlCall ==
    \E preferred \in OptStrings, envUrl \in OptStrings :
        /\ call' = [NoCall EXCEPT !.op = "resolveBaseUrl", !.arg = preferred,
                                   !.env = envUrl,
                                   !.result = resolveBaseUrl(store, preferred, envUrl),
                                   !.before = store]
        /\ UNCHANGED <<store, promptedKey, run, render, proc>>

NextConfig ==
    \/ GetConfigCall
    \/ SetConfigCall
    \/ ClearConfigCall
    \/ EditStoreFile
    \/ EnsureApiKeyCall

SpecConfig == InitConfig /\ [][NextConfig]_vars

(***************************************************************************)
(* Specification SpecUrl: resolveBaseUrl called with any argument and any *)
(* V0_BASE_URL on a store whose baseUrl is written in between.            *)
(***************************************************************************)
SetBaseUrl ==
    \E value \in Strings :
        LET w == setConfig(store, "baseUrl", value)
        IN  /\ store' = w.store
            /\ call' = [NoCall EXCEPT !.op = "setConfig", !.key = "baseUrl",
                                       !.arg = value, !.threw = w.threw,
                                       !.before = store]
            /\ UNCHANGED <<promptedKey, run, render, proc>>

NextUrl ==
    \/ SetBaseUrl
    \/ ResolveBaseUrlCall

SpecUrl == InitConfig /\ [][NextUrl]_vars

(***************************************************************************)
(* commands/chat.ts, commands/project.ts, commands/user.ts: the list and  *)
(* info handlers.  g is program.opts(), o is the command's own options,    *)
(* env is process.env, answer is what the API key prompt resolves to when  *)
(* shown, sdk is how the SDK call ends: "data", "empty" or "throws".       *)
(***************************************************************************)
\* createClient was not reached
NoClient == [created |-> FALSE, apiKey |-> Undefined, baseUrl |-> Undefined]

\* what a handler did: the client it created, the format it rendered with,
\* the function that printed the result, the exit code; e is what
\* ensureApiKey returned (whether it prompted, the store it left)
Outcome(client, format, printer, exitCode, e) ==
    [client |-> client, format |-> format, printer |-> printer,
     exitCode |-> exitCode, prompted |-> e.prompted, store |-> e.store]

\* the catch block of a handler: error(...), printSdkError, process.exit(1)
Failed(client, e) == Outcome(client, Undefined, "error", 1, e)

\* options.output || globalOpts.output || config.outputFormat
ResolvedFormat(o, g, config) == Or(Or(o.output, g.output), config.outputFormat)

\* chat list
chatList(s, g, o, env, answer, sdk) ==
    LET e == ensureApiKey(s, g.apiKey, env.V0_API_KEY, answer)
        v0 == [created |-> TRUE, apiKey |-> e.apiKey, baseUrl |-> Undefined]
        config == getConfig(e.store)
        outputFormat == ResolvedFormat(o, g, config)
    IN  IF e.threw THEN Failed(NoClient, e)
        ELSE IF sdk = "throws" THEN Failed(v0, e)
        ELSE IF sdk = "empty" THEN Outcome(v0, outputFormat, "info", 0, e)
        ELSE Outcome(v0, outputFormat, "formatOutput", 0, e)

\* project list
projectList(s, g, o, env, answer, sdk) ==
    LET e == ensureApiKey(s, Undefined, env.V0_API_KEY, answer)
        v0 == [created |-> TRUE, apiKey |-> e.apiKey, baseUrl |-> Undefined]
        config == getConfig(e.store)
    IN  IF e.threw THEN Failed(NoClient, e)
        ELSE IF sdk = "throws" THEN Failed(v0, e)
        ELSE IF sdk = "empty" THEN Outcome(v0, config.outputFormat, "info", 0, e)
        ELSE Outcome(v0, config.outputFormat, "formatOutput", 0, e)

\* user info
userInfo(s, g, o, env, answer, sdk) ==
    LET e == ensureApiKey(s, g.apiKey, env.V0_API_KEY, answer)
        baseUrl == resolveBaseUrl(e.store, g.baseUrl, env.V0_BASE_URL)
        v0 == [created |-> TRUE, apiKey |-> e.apiKey, baseUrl |-> baseUrl]
        config == getConfig(e.store)
        outputFormat == ResolvedFormat(o, g, config)
    IN  IF e.threw THEN Failed(NoClient, e)
        ELSE IF sdk = "throws" THEN Failed(v0, e)
        ELSE IF outputFormat = FmtTable
        THEN Outcome(v0, outputFormat, "formatUser", 0, e)
        ELSE Outcome(v0, outputFormat, "formatOutput", 0, e)

Commands == {"chat list", "project list", "user info"}

\* the default the command declares for its own --output option
OutputOptionDefault(cmd) == IF cmd = "project list" THEN FmtTable ELSE Undefined

\* the options object commander hands to the action
CommandOptions(cmd, outputFlag) ==
    [output |-> IF outputFlag = Undefined THEN OutputOptionDefault(cmd) ELSE outputFlag]

Handler(cmd, s, g, o, env, answer, sdk) ==
    CASE cmd = "chat list" -> chatList(s, g, o, env, answer, sdk)
      [] cmd = "project list" -> projectList(s, g, o, env, answer, sdk)
      [] cmd = "user info" -> userInfo(s, g, o, env, answer, sdk)

(***************************************************************************)
(* Specification SpecCmd: one process per command line, each on the store *)
(* the earlier ones left.                                                  *)
(***************************************************************************)
\* the stores an earlier session can have left
SessionStores ==
    {[apiKey |-> k, defaultProject |-> Undefined, baseUrl |-> u, outputFormat |-> f] :
        k \in {Undefined, <<>>, <<"s">>}, u \in {Undefined, <<"w">>},
        f \in OutputFormats \cup {Undefined}}

KeyFlags == {Undefined, <<"f">>}
KeyEnvs == {Undefined, <<>>, <<"e">>}
UrlFlags == {Undefined, <<"u">>}
UrlEnvs == {Undefined, <<"v">>}
OutputFlags == OutputFormats \cup {Undefined}
PromptAnswers == {a \in {<<>>, <<" ">>, <<"p">>} : ValidateApiKeyInput(a)} \cup {Undefined}
SdkResults == {"data", "empty", "throws"}

InitCmd ==
    /\ store \in SessionStores
    /\ promptedKey = Undefined
    /\ call = NoCall
    /\ run = NoRun
    /\ render = NoRender
    /\ proc = NoProc

\* a command line is run to its end
RunCommand ==
    /\ run.cmd = "none"
    /\ \E cmd \in Commands, keyFlag \in KeyFlags, urlFlag \in UrlFlags,
          globalOutput \in OutputFlags, outputFlag \in OutputFlags,
          keyEnv \in KeyEnvs, urlEnv \in UrlEnvs, sdk \in SdkResults :
        LET g == [apiKey |-> keyFlag, baseUrl |-> urlFlag, output |-> globalOutput]
            o == CommandOptions(cmd, outputFlag)
            env == [V0_API_KEY |-> keyEnv, V0_BASE_URL |-> urlEnv]
        IN  \E answer \in PromptAnswers :
              LET r == Handler(cmd, store, g, o, env, answer, sdk)
              IN  \* an answer is drawn only when the prompt is shown
                  /\ r.prompted \/ answer = Undefined
                  /\ store' = r.store
                  /\ run' = [cmd |-> cmd, g |-> g, outputFlag |-> outputFlag,
                             env |-> env, answer |-> answer, sdk |-> sdk,
                             client |-> r.client, format |-> r.format,
                             printer |-> r.printer, exitCode |-> r.exitCode,
                             prompted |-> r.prompted, before |-> store]
                  /\ UNCHANGED <<promptedKey, call, render, proc>>

\* the process ends; the next command line starts a new one
ProcessExit ==
    /\ run.cmd # "none"
    /\ run' = NoRun
    /\ UNCHANGED <<store, promptedKey, call, render, proc>>

NextCmd ==
    \/ RunCommand
    \/ ProcessExit

SpecCmd == InitCmd /\ [][NextCmd]_vars

(***************************************************************************)
(* utils/output.ts: the values formatOutput is given.  A value is a record *)
(* with the same fields for every type t: the string s, the number n, the *)
(* boolean b, and for an object its keys with, at the same index of       *)
(* items, their values; for an array its items.                            *)
(***************************************************************************)
JValue(t, s, n, b, keys, items) ==
    [t |-> t, s |-> s, n |-> n, b |-> b, keys |-> keys, items |-> items]

JNull == JValue("null", <<>>, 0, FALSE, <<>>, <<>>)
JUndefined == JValue("undefined", <<>>, 0, FALSE, <<>>, <<>>)
JFunction == JValue("function", <<>>, 0, FALSE, <<>>, <<>>)
JStr(s) == JValue("string", s, 0, FALSE, <<>>, <<>>)
JNum(n) == JValue("number", <<>>, n, FALSE, <<>>, <<>>)
JBigInt(n) == JValue("bigint", <<>>, n, FALSE, <<>>, <<>>)
JBool(b) == JValue("boolean", <<>>, 0, b, <<>>, <<>>)
JObj(keys, items) == JValue("object", <<>>, 0, FALSE, keys, items)
JArr(items) == JValue("array", <<>>, 0, FALSE, <<>>, items)

\* typeof v === 'object' (null and arrays included)
TypeofObject(v) == v.t \in {"null", "object", "array"}

\* v === null || v === undefined
IsNullish(v) == v.t \in {"null", "undefined"}

RECURSIVE Join(_, _)
\* Array.prototype.join on strings
Join(texts, sep) ==
    IF texts = <<>> THEN <<>>
    ELSE IF Len(texts) = 1 THEN texts[1]
    ELSE LET half == Len(texts) \div 2
         IN  Join(SubSeq(texts, 1, half), sep) \o sep
             \o Join(SubSeq(texts, half + 1, Len(texts)), sep)

\* String.prototype.repeat
Repeat(text, n) ==
    IF n <= 0 \/ text = <<>> THEN <<>>
    ELSE [i \in 1..(n * Len(text)) |-> text[((i - 1) % Len(text)) + 1]]

\* String.prototype.padEnd with blanks
PadEnd(text, width) == text \o Repeat(<<" ">>, width - Len(text))

Digits == <<"0", "1", "2", "3", "4", "5", "6", "7", "8", "9">>

RECURSIVE NatText(_)
NatText(n) == IF n < 10 THEN <<Digits[n + 1]>> ELSE NatText(n \div 10) \o <<Digits[(n % 10) + 1]>>

\* String(n) of an integer
NumText(n) == IF n < 0 THEN <<"-">> \o NatText(-n) ELSE NatText(n)

BoolText(b) == IF b THEN <<"t", "r", "u", "e">> ELSE <<"f", "a", "l", "s", "e">>

\* JSON.stringify of a string: quoted, with quote and backslash escaped
QuoteChar(c) == IF c = "\"" \/ c = "\\" THEN <<"\\", c>> ELSE <<c>>

RECURSIVE QuoteBody(_)
\* the characters of text, each escaped, left half then right half
QuoteBody(text) ==
    IF text = <<>> THEN <<>>
    ELSE IF Len(text) = 1 THEN QuoteChar(text[1])
    ELSE LET half == Len(text) \div 2
         IN  QuoteBody(SubSeq(text, 1, half)) \o QuoteBody(SubSeq(text, half + 1, Len(text)))

Quote(text) == <<"\"">> \o QuoteBody(text) \o <<"\"">>

RECURSIVE JsonThrows(_)
\* JSON.stringify(v) throws a TypeError: a BigInt somewhere in v
JsonThrows(v) ==
    \/ v.t = "bigint"
    \/ \E i \in 1..Len(v.items) : JsonThrows(v.items[i])

\* JSON.stringify leaves out a property, and returns undefined at top level,
\* for these
JsonOmits(v) == v.t \in {"undefined", "function"}

RECURSIVE JsonText(_, _, _)
\* JSON.stringify(v, null, gap) at nesting depth `depth`, for a v that does
\* not throw and is not omitted; gap = 0 is the compact form
JsonText(v, gap, depth) ==
    LET indent == Repeat(<<" ">>, gap * (depth + 1))
        stepback == Repeat(<<" ">>, gap * depth)
        open == IF gap = 0 THEN <<>> ELSE <<"\n">> \o indent
        close == IF gap = 0 THEN <<>> ELSE <<"\n">> \o stepback
        sep == IF gap = 0 THEN <<",">> ELSE <<",", "\n">> \o indent
        colon == IF gap = 0 THEN <<":">> ELSE <<":", " ">>
        kept == SelectSeq([i \in 1..Len(v.keys) |-> i], LAMBDA i : ~JsonOmits(v.items[i]))
    IN  CASE v.t = "null" -> <<"n", "u", "l", "l">>
          [] v.t = "string" -> Quote(v.s)
          [] v.t = "number" -> NumText(v.n)
          [] v.t = "boolean" -> BoolText(v.b)
          [] v.t = "array" ->
               IF v.items = <<>> THEN <<"[", "]">>
               ELSE <<"[">> \o open
                    \o Join([i \in 1..Len(v.items) |->
                                IF JsonOmits(v.items[i]) THEN <<"n", "u", "l", "l">>
                                ELSE JsonText(v.items[i], gap, depth + 1)], sep)
                    \o close \o <<"]">>
          [] v.t = "object" ->
               IF kept = <<>> THEN <<"{", "}">>
               ELSE <<"{">> \o open
                    \o Join([j \in 1..Len(kept) |->
                                Quote(v.keys[kept[j]]) \o colon
                                \o JsonText(v.items[kept[j]], gap, depth + 1)], sep)
                    \o close \o <<"}">>

\* JSON.stringify(v, null, gap): the text, Undefined for undefined and
\* functions; threw when it throws
JSONstringify(v, gap) ==
    IF JsonThrows(v) THEN [threw |-> TRUE, text |-> Undefined]
    ELSE IF JsonOmits(v) THEN [threw |-> FALSE, text |-> Undefined]
    ELSE [threw |-> FALSE, text |-> JsonText(v, gap, 0)]

RECURSIVE StringOf(_)
\* String(v)
StringOf(v) ==
    CASE v.t = "null" -> <<"n", "u", "l", "l">>
      [] v.t = "undefined" -> <<"u", "n", "d", "e", "f", "i", "n", "e", "d">>
      [] v.t = "function" -> <<"(", ")", " ", "=", ">", " ", "1">>
      [] v.t = "string" -> v.s
      [] v.t \in {"number", "bigint"} -> NumText(v.n)
      [] v.t = "boolean" -> BoolText(v.b)
      [] v.t = "object" -> <<"[", "o", "b", "j", "e", "c", "t", " ", "O", "b", "j", "e", "c", "t", "]">>
      [] v.t = "array" ->
           Join([i \in 1..Len(v.items) |->
                    IF IsNullish(v.items[i]) THEN <<>> ELSE StringOf(v.items[i])], <<",">>)

(***************************************************************************)
(* utils/output.ts: formatOutput and formatTable.  What is printed is the *)
(* sequence of console calls, each with its stream and its text; chalk    *)
(* colours are left out of the text.                                       *)
(***************************************************************************)
maxColumnWidth == 40

\* the limit truncate is given for the items of a list of scalars
listItemWidth == 120

Min(a, b) == IF a <= b THEN a ELSE b

\* Math.max(first, ...rest)
MaxOf(first, rest) ==
    LET all == {first} \cup {rest[i] : i \in 1..Len(rest)}
    IN  CHOOSE m \in all : \A x \in all : x <= m

\* console.log(text) and console.error(text); undefined prints as a word
ConsoleLog(text) ==
    [stream |-> "stdout", kind |-> "text",
     text |-> IF text = Undefined THEN <<"u", "n", "d", "e", "f", "i", "n", "e", "d">> ELSE text, doc |-> JNull]

\* console.log of the document the yaml package made of data
ConsoleLogYaml(data) ==
    [stream |-> "stdout", kind |-> "yaml", text |-> <<>>, doc |-> data]

\* what a call printed, and whether it threw
Printed(out) == [threw |-> FALSE, out |-> out]
Thrown(out) == [threw |-> TRUE, out |-> out]

\* the one character U+2026 (horizontal ellipsis)
Ellipsis == "..."

\* a truncate that cuts to limit characters and adds no ellipsis
truncate_NoEllipsis(value, limit) ==
    IF Len(value) <= limit THEN value ELSE SubSeq(value, 1, limit)

\* truncate(value, limit) for a string; value.length throws for undefined
truncate(value, limit) ==
    IF Len(value) <= limit THEN value
    ELSE SubSeq(value, 1, limit - 1) \o <<Ellipsis>>

\* stringifyValue(val): a string, or Undefined when JSON.stringify returns
\* undefined (a function)
stringifyValue(val) ==
    IF IsNullish(val) THEN <<>>
    ELSE IF val.t = "string" THEN val.s
    ELSE IF val.t \in {"number", "boolean"} THEN StringOf(val)
    ELSE LET r == JSONstringify(val, 0)
         IN  IF r.threw THEN StringOf(val) ELSE r.text

\* Object.keys(v) for a v that is not null or undefined
ObjectKeys(v) ==
    CASE v.t = "object" -> v.keys
      [] v.t = "array" -> [i \in 1..Len(v.items) |-> NatText(i - 1)]
      [] v.t = "string" -> [i \in 1..Len(v.s) |-> NatText(i - 1)]
      [] OTHER -> <<>>

\* row[h] for a row that is not null or undefined
GetProp(row, h) ==
    LET at == {i \in 1..Len(ObjectKeys(row)) : ObjectKeys(row)[i] = h}
    IN  IF at = {} THEN JUndefined
        ELSE LET i == CHOOSE i \in at : TRUE
             IN  IF row.t = "string" THEN JStr(<<row.s[i]>>) ELSE row.items[i]

\* keys.forEach((k) => headersSet.add(k)) on the headers collected so far:
\* a key is appended unless the set already holds it
AddAll(headers, keys) ==
    LET fresh == SelectSeq([i \in 1..Len(keys) |-> i],
                           LAMBDA i : /\ \A h \in 1..Len(headers) : headers[h] # keys[i]
                                      /\ \A j \in 1..(i - 1) : keys[j] # keys[i])
    IN  headers \o [j \in 1..Len(fresh) |-> keys[fresh[j]]]

\* headers taken from the keys of the first row only
CollectHeaders_FirstRowOnly(headers, rows) ==
    IF rows = <<>> THEN headers ELSE AddAll(headers, ObjectKeys(Head(rows)))

RECURSIVE CollectHeaders(_, _)
\* data.forEach((item) => Object.keys(item).forEach(...)): the keys of every
\* row, in the order first seen
CollectHeaders(headers, rows) ==
    IF rows = <<>> THEN headers
    ELSE CollectHeaders(AddAll(headers, ObjectKeys(Head(rows))), Tail(rows))

\* a list branch that numbers its lines from 0
formatList_ZeroBased(data) ==
    LET text == [i \in 1..Len(data.items) |-> stringifyValue(data.items[i])]
        bad == {i \in 1..Len(text) : text[i] = Undefined}
        stop == IF bad = {} THEN Len(text) + 1 ELSE CHOOSE i \in bad : \A j \in bad : i <= j
        lines == [i \in 1..(stop - 1) |->
                     ConsoleLog(NatText(i - 1) \o <<".", " ">> \o truncate(text[i], listItemWidth))]
    IN  IF bad = {} THEN Printed(lines) ELSE Thrown(lines)

\* the list branch of formatTable for a list whose first item is a scalar
formatList(data) ==
    LET text == [i \in 1..Len(data.items) |-> stringifyValue(data.items[i])]
        bad == {i \in 1..Len(text) : text[i] = Undefined}
        stop == IF bad = {} THEN Len(text) + 1 ELSE CHOOSE i \in bad : \A j \in bad : i <= j
        lines == [i \in 1..(stop - 1) |->
                     ConsoleLog(NatText(i) \o <<".", " ">> \o truncate(text[i], listItemWidth))]
    IN  IF bad = {} THEN Printed(lines) ELSE Thrown(lines)

\* the list branch of formatTable for a list whose first item is an object
formatRows(data) ==
    LET rows == data.items
        n == Len(rows)
    IN  IF \E r \in 1..n : IsNullish(rows[r]) THEN Thrown(<<>>)
        ELSE
        LET headers == CollectHeaders(<<>>, rows)
            cell == [r \in 1..n |-> [c \in 1..Len(headers) |->
                        stringifyValue(GetProp(rows[r], headers[c]))]]
        IN  IF \E r \in 1..n : \E c \in 1..Len(headers) : cell[r][c] = Undefined
            THEN Thrown(<<>>)
            ELSE
            LET widths == [c \in 1..Len(headers) |->
                              Min(maxColumnWidth,
                                  MaxOf(Len(headers[c]),
                                        [r \in 1..n |->
                                            Len(truncate(cell[r][c], maxColumnWidth))]))]
                headerRow == Join([c \in 1..Len(headers) |-> PadEnd(headers[c], widths[c])],
                                  <<" ", "|", " ">>)
                line == [r \in 1..n |->
                            Join([c \in 1..Len(headers) |->
                                     PadEnd(truncate(cell[r][c], maxColumnWidth), widths[c])],
                                 <<" ", "|", " ">>)]
            IN  Printed(<<ConsoleLog(headerRow), ConsoleLog(Repeat(<<"-">>, Len(headerRow)))>>
                        \o [r \in 1..n |-> ConsoleLog(line[r])])

NoItemsFound == <<"N", "o", " ", "i", "t", "e", "m", "s", " ", "f", "o", "u", "n", "d">>

\* an empty list that prints an empty header and separator instead
emptyList_HeaderAndSeparator == Printed(<<ConsoleLog(<<>>), ConsoleLog(<<>>)>>)

\* the branch of formatTable for an empty list
emptyList == Printed(<<ConsoleLog(NoItemsFound)>>)

\* formatTable(data)
formatTable(data) ==
    IF data.t = "array"
    THEN IF Len(data.items) = 0 THEN emptyList
         ELSE IF ~TypeofObject(data.items[1]) \/ data.items[1].t = "null"
         THEN formatList(data)
         ELSE formatRows(data)
    ELSE IF TypeofObject(data) /\ data.t # "null"
    THEN Printed([i \in 1..Len(data.keys) |->
                     LET value == stringifyValue(data.items[i])
                     IN  ConsoleLog(data.keys[i] \o <<":", " ">>
                                    \o IF value = Undefined THEN <<"u", "n", "d", "e", "f", "i", "n", "e", "d">> ELSE value)])
    ELSE Printed(<<ConsoleLog(stringifyValue(data))>>)

\* a printJson that serializes without indentation
printJson_Compact(data) ==
    LET r == JSONstringify(data, 0)
    IN  IF r.threw THEN Thrown(<<>>) ELSE Printed(<<ConsoleLog(r.text)>>)

\* console.log(JSON.stringify(data, null, 2))
printJson(data) ==
    LET r == JSONstringify(data, 2)
    IN  IF r.threw THEN Thrown(<<>>) ELSE Printed(<<ConsoleLog(r.text)>>)

\* a formatOutput whose yaml branch has no try/catch
formatOutput_YamlUncaught(data, format, yaml) ==
    IF format = FmtJson THEN printJson(data)
    ELSE IF format = FmtYaml
    THEN IF yaml = "throws" THEN Thrown(<<>>) ELSE Printed(<<ConsoleLogYaml(data)>>)
    ELSE formatTable(data)

\* formatOutput(data, format); yaml is how YAML.stringify(data) ends: "ok"
\* or "throws"
formatOutput(data, format, yaml) ==
    IF format = FmtJson THEN printJson(data)
    ELSE IF format = FmtYaml
    THEN IF yaml = "throws" THEN printJson(data) ELSE Printed(<<ConsoleLogYaml(data)>>)
    ELSE formatTable(data)

(***************************************************************************)
(* Specification SpecRender: formatOutput applied once to a value, in a   *)
(* format, with the yaml package succeeding or failing.                    *)
(***************************************************************************)
KeyId == <<"i", "d">>
KeyName == <<"n", "a", "m", "e">>

\* a key one character longer than a column, a cell five characters longer,
\* a cell exactly as long as a column, a list item one character longer than
\* a list line
LongKey == Repeat(<<"k">>, maxColumnWidth + 1)
LongText == Repeat(<<"v">>, maxColumnWidth + 5)
ExactText == Repeat(<<"e">>, maxColumnWidth)
LongItem == Repeat(<<"w">>, listItemWidth + 1)

Scalars == {JNull, JStr(<<"x">>), JNum(1), JBool(TRUE)}

Records ==
    {JObj(<<KeyId>>, <<JStr(<<"1">>)>>),
     JObj(<<KeyName>>, <<JStr(<<"X">>)>>),
     JObj(<<KeyId, KeyName>>, <<JNum(7), JNull>>),
     JObj(<<KeyId>>, <<JObj(<<KeyName>>, <<JStr(<<"x">>)>>)>>),
     JObj(<<KeyName>>, <<JArr(<<JNum(1), JNum(2)>>)>>),
     JObj(<<KeyId>>, <<JStr(LongText)>>),
     JObj(<<KeyName>>, <<JStr(ExactText)>>),
     JObj(<<LongKey>>, <<JStr(<<"x">>)>>)}

\* values no JSON response holds, which a caller can still pass
Exotic ==
    {JUndefined, JFunction, JBigInt(5),
     JObj(<<KeyId>>, <<JFunction>>),
     JObj(<<KeyId, KeyName>>, <<JFunction, JBigInt(5)>>)}

Elements == Scalars \cup Records \cup {JArr(<<JNum(1)>>)} \cup Exotic

\* the lists of at most n elements
ListsUpTo(n) == UNION {[1..k -> Elements] : k \in 0..n}

\* lists of scalars with an item longer than a list line
LongLists ==
    {JArr(<<JStr(LongItem)>>),
     JArr(<<JStr(<<"x">>), JStr(LongItem)>>),
     JArr(<<JNull, JStr(LongItem), JNum(1)>>)}

RenderValues == Elements \cup {JArr(items) : items \in ListsUpTo(MaxItems)} \cup LongLists

RECURSIVE IsJsonValue(_)
\* v is a value a JSON text parses to: records, lists, scalars and null
IsJsonValue(v) ==
    /\ v.t \notin {"undefined", "function", "bigint"}
    /\ \A i \in 1..Len(v.items) : IsJsonValue(v.items[i])

InitRender ==
    /\ store = EmptyStore
    /\ promptedKey = Undefined
    /\ call = NoCall
    /\ run = NoRun
    /\ proc = NoProc
    /\ \E data \in RenderValues, format \in OutputFormats, yaml \in {"ok", "throws"} :
          /\ yaml = "throws" => format = FmtYaml
          /\ render = [pending |-> TRUE, data |-> data, format |-> format,
                       yaml |-> yaml, threw |-> FALSE, out |-> <<>>]

FormatOutputCall ==
    /\ render.pending
    /\ LET r == formatOutput(render.data, render.format, render.yaml)
       IN  render' = [render EXCEPT !.pending = FALSE, !.threw = r.threw, !.out = r.out]
    /\ UNCHANGED <<store, promptedKey, call, run, proc>>

NextRender == FormatOutputCall

SpecRender == InitRender /\ [][NextRender]_vars

(***************************************************************************)
(* utils/output.ts: the four message helpers.  A glyph is one character,   *)
(* written here by its code point; console.log(a, b) prints a, a blank, b. *)
(***************************************************************************)
GlyphSuccess == "U+2713"
GlyphError == "U+2717"
GlyphInfo == "U+2139"
GlyphWarning == "U+26A0"

\* console.error(text)
ConsoleError(text) ==
    [stream |-> "stderr", kind |-> "text", text |-> text, doc |-> JNull]

success(message) == ConsoleLog(<<GlyphSuccess, " ">> \o message)

\* an error helper that logs to standard output like the other three
error_ToStdout(message) == ConsoleLog(<<GlyphError, " ">> \o message)

error(message) == ConsoleError(<<GlyphError, " ">> \o message)

info(message) == ConsoleLog(<<GlyphInfo, " ">> \o message)

warning(message) == ConsoleLog(<<GlyphWarning, " ">> \o message)

Helpers == {"success", "error", "info", "warning"}

\* what helper(message) writes
HelperOutput(helper, message) ==
    CASE helper = "success" -> success(message)
      [] helper = "error" -> error(message)
      [] helper = "info" -> info(message)
      [] helper = "warning" -> warning(message)

(***************************************************************************)
(* Specification SpecMsg: a process calls the message helpers, any of     *)
(* them, one after the other.                                              *)
(***************************************************************************)
\* the longest message, and the most helper calls of a process
MaxMessageLen == 1
MaxCalls == 2

Messages == StringsUpTo(MaxMessageLen)

InitMsg ==
    /\ store = EmptyStore
    /\ promptedKey = Undefined
    /\ call = NoCall
    /\ run = NoRun
    /\ render = NoRender
    /\ proc = NoProc

HelperCall ==
    /\ Len(proc.calls) < MaxCalls
    /\ \E helper \in Helpers, message \in Messages :
          proc' = [proc EXCEPT
                      !.cmd = "helpers",
                      !.calls = Append(@, [helper |-> helper, message |-> message]),
                      !.console = Append(@, HelperOutput(helper, message))]
    /\ UNCHANGED <<store, promptedKey, call, run, render>>

NextMsg == HelperCall

SpecMsg == InitMsg /\ [][NextMsg]_vars

(***************************************************************************)
(* commands/chat.ts: chat create and deploy quick, step by step.  What a  *)
(* process writes is the sequence of its console calls.  Fixed message    *)
(* texts are written as one element each, standing for their characters.  *)
(* The ora spinner writes to standard error, an inquirer prompt to the    *)
(* terminal.                                                               *)
(***************************************************************************)
KeyWebUrl == <<"w", "e", "b", "U", "r", "l">>
KeyInspectorUrl == <<"i", "n", "s", "p", "e", "c", "t", "o", "r", "U", "r", "l">>
KeyProject == <<"p", "r", "o", "j", "e", "c", "t">>
KeyChat == <<"c", "h", "a", "t">>
KeyDeployment == <<"d", "e", "p", "l", "o", "y", "m", "e", "n", "t">>

\* what v0.projects.create, v0.chats.create and v0.deployments.create return
ProjectRecord == JObj(<<KeyId, KeyName>>, <<JStr(<<"p">>), JStr(<<"P">>)>>)
ChatRecord == JObj(<<KeyId, KeyName, KeyWebUrl>>, <<JStr(<<"c">>), JStr(<<"N">>), JStr(<<"u">>)>>)
DeploymentRecord ==
    JObj(<<KeyId, KeyWebUrl, KeyInspectorUrl>>, <<JStr(<<"d">>), JStr(<<"v">>), JStr(<<"i">>)>>)

\* the message of the Error an SDK call rejects with
SdkErrorMessage == <<"E">>

\* `${value}` for a property of a record
Interpolated(record, key) == StringOf(GetProp(record, key))

\* spinner.succeed(text) and spinner.fail(text)
SpinnerSucceed(text) == [stream |-> "stderr", kind |-> "succeed", text |-> text, doc |-> JNull]
SpinnerFail(text) == [stream |-> "stderr", kind |-> "fail", text |-> text, doc |-> JNull]

\* the question of an inquirer prompt
Prompt(text) == [stream |-> "tty", kind |-> "prompt", text |-> text, doc |-> JNull]

\* what ensureApiKey writes when it returned e
ensureApiKeyOutput(e) ==
    IF ~e.prompted THEN <<>>
    ELSE <<ConsoleLog(<<"No API key found. Please provide your v0 API key.">>),
           ConsoleLog(<<"You can get your API key from: https://v0.dev/chat/settings/keys">>),
           Prompt(<<"Enter your v0 API key:">>)>>
         \o IF e.threw THEN <<>> ELSE <<ConsoleLog(<<"API key saved successfully!">>)>>

\* formatChat(chat) for a chat without latestVersion.demoUrl
formatChat(chat) ==
    <<ConsoleLog(<<"Chat Details:">>),
      ConsoleLog(<<"ID: ">> \o Interpolated(chat, KeyId)),
      ConsoleLog(<<"Name: ">> \o Interpolated(chat, KeyName)),
      ConsoleLog(<<"Privacy: ">> \o Interpolated(chat, <<"p", "r", "i", "v", "a", "c", "y">>)),
      ConsoleLog(<<"Created: ", "toLocaleString()">>),
      ConsoleLog(<<"URL: ">> \o Interpolated(chat, KeyWebUrl))>>

\* the summary deploy quick prints in table format
quickDeploySummary ==
    <<ConsoleLog(<<"Quick Deploy Summary:">>),
      ConsoleLog(<<"Project: ">> \o Interpolated(ProjectRecord, KeyName)
                 \o <<" ", "(">> \o Interpolated(ProjectRecord, KeyId) \o <<")">>),
      ConsoleLog(<<"Chat: ">> \o Interpolated(ChatRecord, KeyName)
                 \o <<" ", "(">> \o Interpolated(ChatRecord, KeyId) \o <<")">>),
      ConsoleLog(<<"Deployment: ">> \o Interpolated(DeploymentRecord, KeyId)),
      ConsoleLog(<<"Chat URL: ">> \o Interpolated(ChatRecord, KeyWebUrl)),
      ConsoleLog(<<"Deployment URL: ">> \o Interpolated(DeploymentRecord, KeyWebUrl)),
      ConsoleLog(<<"Inspector URL: ">> \o Interpolated(DeploymentRecord, KeyInspectorUrl))>>

\* the object deploy quick hands to formatOutput
QuickDeployResult ==
    JObj(<<KeyProject, KeyChat, KeyDeployment>>, <<ProjectRecord, ChatRecord, DeploymentRecord>>)

\* process p after writing entries
Write(p, entries) == [p EXCEPT !.console = @ \o entries]

\* the catch block of chat create: error, printSdkError, process.exit(1)
catchChatCreate(p, message) ==
    [Write(p, <<error(<<"Failed to create chat: ">> \o message),
                ConsoleError(<<"Details:", " ", "message=">> \o message)>>)
        EXCEPT !.failed = TRUE, !.exitCode = 1, !.pc = "exited"]

\* the catch block of deploy quick: error, process.exit(1)
catchDeployQuick(p, message) ==
    [Write(p, <<error(<<"Failed to create quick deploy: ">> \o message)>>)
        EXCEPT !.failed = TRUE, !.exitCode = 1, !.pc = "exited"]

catch(p, message) ==
    IF p.cmd = "chat create" THEN catchChatCreate(p, message) ELSE catchDeployQuick(p, message)

\* an SDK call of process p rejected
Rejected(p) == catch([p EXCEPT !.sdkError = TRUE], SdkErrorMessage)

\* chat create after v0.chats.create returned: the result, then the URL
chatCreated(p) ==
    LET q == Write(p, <<SpinnerSucceed(<<"Chat created successfully!">>)>>)
        r == IF q.format = FmtTable THEN Printed(formatChat(ChatRecord))
             ELSE formatOutput(ChatRecord, q.format, q.yaml)
        shown == [Write(q, r.out) EXCEPT !.rendered = TRUE]
    IN  IF r.threw THEN catch(shown, <<"TypeError">>)
        ELSE [Write(shown, <<success(<<"Chat URL: ">> \o Interpolated(ChatRecord, KeyWebUrl))>>)
                 EXCEPT !.pc = "done"]

\* deploy quick after v0.deployments.create returned
deploymentCreated(p) ==
    LET q == Write(p, <<SpinnerSucceed(<<"Deployment created successfully!">>)>>)
        r == IF q.format = FmtTable THEN Printed(quickDeploySummary)
             ELSE formatOutput(QuickDeployResult, q.format, q.yaml)
        shown == [Write(q, r.out) EXCEPT !.rendered = TRUE]
    IN  IF r.threw THEN catch(shown, <<"TypeError">>)
        ELSE [Write(shown,
                    <<success(<<"Quick deploy completed successfully!">>),
                      success(<<"Chat URL: ">> \o Interpolated(ChatRecord, KeyWebUrl)),
                      success(<<"Deployment URL: ">> \o Interpolated(DeploymentRecord, KeyWebUrl)),
                      success(<<"Inspector URL: ">> \o Interpolated(DeploymentRecord, KeyInspectorUrl))>>)
                 EXCEPT !.pc = "done"]

\* the poll window and the pause between two polls, in milliseconds
pollWindow == 60000
pollInterval == 3000

\* how long a v0.chats.getById call takes, in milliseconds
Latencies == {0, 1500}

\* chatDetails.latestVersion?.id of a chat read by v0.chats.getById
LatestVersions == {Undefined, <<"1">>, <<"2">>}

\* the ids of a record an SDK call returned
IdOf(record) == GetProp(record, KeyId).s

\* a call to the SDK: the ids in its request, whether it returned, and the
\* id it returned (of the project or chat created, of the latest version of
\* the chat read)
SdkCall(op, projectId, chatId, versionId, ok, returned) ==
    [op |-> op, projectId |-> projectId, chatId |-> chatId, versionId |-> versionId,
     ok |-> ok, returned |-> IF ok THEN returned ELSE Undefined, id |-> Undefined]

\* process p after the SDK call
Called(p, sdkCall) == [p EXCEPT !.sdk = Append(@, sdkCall)]

\* deploy quick: the request of v0.projects.create
projectsCreate(ok) ==
    SdkCall("projects.create", Undefined, Undefined, Undefined, ok, IdOf(ProjectRecord))

\* a chats.create that leaves the project out of its request
chatsCreate_NoProject(p, ok) ==
    SdkCall("chats.create", Undefined, Undefined, Undefined, ok, IdOf(ChatRecord))

\* the request of v0.chats.create: deploy quick passes project.id, chat
\* create passes options.projectId || config.defaultProject, both unset in
\* these runs
chatsCreate(p, ok) ==
    SdkCall("chats.create",
            IF p.cmd = "deploy quick" THEN IdOf(ProjectRecord) ELSE Undefined,
            Undefined, Undefined, ok, IdOf(ChatRecord))

\* deploy quick: the request of v0.chats.getById
chatsGetById(ok, latestVersion) ==
    SdkCall("chats.getById", Undefined, IdOf(ChatRecord), Undefined, ok, latestVersion)

\* deploy quick: the request of v0.deployments.create
deploymentsCreateQuick(p, ok) ==
    SdkCall("deployments.create", IdOf(ProjectRecord), IdOf(ChatRecord), p.version, ok,
            IdOf(DeploymentRecord))

\* a poll loop that goes on while the window is not exceeded
pollGoesOn_Inclusive(p) == ~p.hasVersion /\ p.elapsed <= pollWindow

\* deploy quick: the condition of the while loop
pollGoesOn(p) == ~p.hasVersion /\ p.elapsed < pollWindow

\* a deploy quick that treats the end of the poll window as a failure
afterPoll_TimeoutIsError(p) ==
    IF ~p.hasVersion
    THEN catchDeployQuick(p, <<"No version generated yet after waiting. Try again later.">>)
    ELSE [Write(p, <<SpinnerSucceed(<<"Chat processed successfully!">>)>>)
             EXCEPT !.pc = "createDeployment"]

\* deploy quick after the poll loop
afterPoll(p) ==
    IF ~p.hasVersion
    THEN [Write(p, <<SpinnerFail(<<"No version generated yet after waiting. Try again later.">>),
                     info(<<"Chat URL: ">> \o Interpolated(ChatRecord, KeyWebUrl))>>)
             EXCEPT !.notReady = TRUE, !.pc = "done"]
    ELSE [Write(p, <<SpinnerSucceed(<<"Chat processed successfully!">>)>>)
             EXCEPT !.pc = "createDeployment"]

(***************************************************************************)
(* Specification SpecFlow: one process runs chat create or deploy quick;  *)
(* every awaited SDK call is a step that returns or rejects.               *)
(***************************************************************************)
FlowCommands == {"chat create", "deploy quick"}

\* the stores an earlier session can have left
FlowStores ==
    {[apiKey |-> k, defaultProject |-> Undefined, baseUrl |-> Undefined, outputFormat |-> f] :
        k \in {Undefined, <<"s">>}, f \in OutputFormats \cup {Undefined}}

InitFlow ==
    /\ store \in FlowStores
    /\ promptedKey = Undefined
    /\ call = NoCall
    /\ run = NoRun
    /\ render = NoRender
    /\ proc = NoProc

\* the action starts: API key, format, the prompts for what the command
\* line left out, the first spinner
StartCommand ==
    /\ proc.pc = "idle"
    /\ \E cmd \in FlowCommands, keyFlag \in KeyFlags, outputFlag \in OutputFlags,
          answer \in PromptAnswers, messageGiven \in BOOLEAN, nameGiven \in BOOLEAN,
          yaml \in {"ok", "throws"} :
        LET e == ensureApiKey(store, keyFlag, Undefined, answer)
            g == [apiKey |-> keyFlag, baseUrl |-> Undefined, output |-> Undefined]
            outputFormat == ResolvedFormat([output |-> outputFlag], g, getConfig(e.store))
            p == Write([proc EXCEPT !.cmd = cmd], ensureApiKeyOutput(e))
            asked == (IF messageGiven THEN <<>> ELSE <<Prompt(<<"Enter your message:">>)>>)
                     \o (IF cmd = "deploy quick" /\ ~nameGiven
                         THEN <<Prompt(<<"Enter project name:">>)>> ELSE <<>>)
        IN  /\ e.prompted \/ answer = Undefined
            /\ cmd = "chat create" => nameGiven
            /\ yaml = "throws" => (~e.threw /\ outputFormat = FmtYaml)
            /\ store' = e.store
            /\ proc' = IF e.threw THEN catch(p, <<"prompt">>)
                       ELSE [Write(p, asked) EXCEPT
                                !.format = outputFormat, !.yaml = yaml,
                                !.pc = IF cmd = "chat create" THEN "createChat"
                                       ELSE "createProject"]
    /\ UNCHANGED <<promptedKey, call, run, render>>

\* deploy quick: v0.projects.create returns or rejects
CreateProject ==
    /\ proc.pc = "createProject"
    /\ \/ proc' = [Write(Called(proc, projectsCreate(TRUE)),
                           <<SpinnerSucceed(<<"Project created: ">>
                                            \o Interpolated(ProjectRecord, KeyName))>>)
                      EXCEPT !.pc = "createChat"]
       \/ proc' = Rejected(Called(proc, projectsCreate(FALSE)))
    /\ UNCHANGED <<store, promptedKey, call, run, render>>

\* v0.chats.create returns or rejects
CreateChat ==
    /\ proc.pc = "createChat"
    /\ \/ LET p == Called(proc, chatsCreate(proc, TRUE))
          IN  proc' = IF p.cmd = "chat create" THEN chatCreated(p)
                      ELSE [Write(p, <<SpinnerSucceed(<<"Chat created successfully!">>)>>)
                               EXCEPT !.pc = "getChat"]
       \/ proc' = Rejected(Called(proc, chatsCreate(proc, FALSE)))
    /\ UNCHANGED <<store, promptedKey, call, run, render>>

\* deploy quick: the first v0.chats.getById; startTime is taken after it
GetChat ==
    /\ proc.pc = "getChat"
    /\ \/ \E latestVersion \in LatestVersions :
             proc' = [Called(proc, chatsGetById(TRUE, latestVersion)) EXCEPT
                         !.hasVersion = Truthy(latestVersion), !.version = latestVersion,
                         !.reads = @ + 1, !.elapsed = 0, !.pc = "poll"]
       \/ proc' = Rejected([Called(proc, chatsGetById(FALSE, Undefined)) EXCEPT !.reads = @ + 1])
    /\ UNCHANGED <<store, promptedKey, call, run, render>>

\* deploy quick: one round of the while loop: the pause, then getById
PollAgain ==
    /\ proc.pc = "poll"
    /\ pollGoesOn(proc)
    /\ \E latency \in Latencies :
          \/ \E latestVersion \in LatestVersions :
                proc' = [Called(proc, chatsGetById(TRUE, latestVersion)) EXCEPT
                            !.hasVersion = Truthy(latestVersion), !.version = latestVersion,
                            !.reads = @ + 1, !.elapsed = @ + pollInterval + latency]
          \/ proc' = Rejected([Called(proc, chatsGetById(FALSE, Undefined)) EXCEPT
                                  !.reads = @ + 1, !.elapsed = @ + pollInterval + latency])
    /\ UNCHANGED <<store, promptedKey, call, run, render>>

\* deploy quick: the loop has ended
AfterPoll ==
    /\ proc.pc = "poll"
    /\ ~pollGoesOn(proc)
    /\ proc' = afterPoll(proc)
    /\ UNCHANGED <<store, promptedKey, call, run, render>>

\* deploy quick: v0.deployments.create returns or rejects
CreateDeployment ==
    /\ proc.pc = "createDeployment"
    /\ \/ proc' = deploymentCreated([Called(proc, deploymentsCreateQuick(proc, TRUE))
                                         EXCEPT !.deployed = TRUE])
       \/ proc' = Rejected([Called(proc, deploymentsCreateQuick(proc, FALSE))
                                EXCEPT !.deployed = TRUE])
    /\ UNCHANGED <<store, promptedKey, call, run, render>>

NextFlow ==
    \/ StartCommand
    \/ CreateProject
    \/ CreateChat
    \/ GetChat
    \/ PollAgain
    \/ AfterPoll
    \/ CreateDeployment

SpecFlow == InitFlow /\ [][NextFlow]_vars

\* every status read of the poll loop settles, and the code after the loop
\* runs
SpecFlowFair == SpecFlow /\ WF_vars(PollAgain) /\ WF_vars(AfterPoll)

(***************************************************************************)
(* utils/config.ts showConfig and the config commands that set and show   *)
(* the API key.                                                            *)
(***************************************************************************)
\* the longest API key stored
MaxShownKeyLen == 5

\* the number of trailing characters of the key showConfig prints
shownTail == 4

\* String.prototype.slice(-n): the last n characters, all of a shorter string
SliceLast(text, n) ==
    SubSeq(text, IF Len(text) > n THEN Len(text) - n + 1 ELSE 1, Len(text))

\* String.prototype.includes
Includes(text, part) ==
    \E i \in 0..(Len(text) - Len(part)) : SubSeq(text, i + 1, i + Len(part)) = part

Mask == <<"*", "*", "*">>

\* showConfig(), reading store s: the five lines it prints
showConfig(s) ==
    LET currentConfig == getConfig(s)
    IN  <<ConsoleLog(<<"Current Configuration:">>),
          ConsoleLog(<<"API Key: ">>
                     \o IF Truthy(currentConfig.apiKey)
                        THEN Mask \o SliceLast(currentConfig.apiKey, shownTail)
                        ELSE <<"Not set">>),
          ConsoleLog(<<"Default Project: ">> \o Or(currentConfig.defaultProject, <<"Not set">>)),
          ConsoleLog(<<"Base URL: ">>
                     \o Or(currentConfig.baseUrl, <<"Default (https://api.v0.dev/v1)">>)),
          ConsoleLog(<<"Output Format: ">> \o currentConfig.outputFormat)>>

\* the API keys a user stores
ShownKeyChars == {"k", "4"}
ShownKeys == UNION {[1..n -> ShownKeyChars] : n \in 1..MaxShownKeyLen}

(***************************************************************************)
(* Specification SpecShow: config set-api-key <apiKey> and config show,   *)
(* each run as a process of its own.                                       *)
(***************************************************************************)
InitShow ==
    /\ store \in {EmptyStore, DefaultStore}
    /\ promptedKey = Undefined
    /\ call = NoCall
    /\ run = NoRun
    /\ render = NoRender
    /\ proc = NoProc

\* config set-api-key <apiKey>
ConfigSetApiKey ==
    /\ \E apiKey \in ShownKeys :
          LET w == setConfig(store, "apiKey", apiKey)
          IN  /\ store' = w.store
              /\ proc' = [Write([NoProc EXCEPT !.cmd = "config set-api-key"],
                                 <<success(<<"API key set successfully!">>),
                                   info(<<"You can get your API key from: https://v0.dev/chat/settings/keys">>)>>)
                             EXCEPT !.pc = "done"]
    /\ UNCHANGED <<promptedKey, call, run, render>>

\* config show
ConfigShow ==
    /\ proc' = [Write([NoProc EXCEPT !.cmd = "config show"], showConfig(store))
                   EXCEPT !.pc = "done"]
    /\ UNCHANGED <<store, promptedKey, call, run, render>>

NextShow ==
    \/ ConfigSetApiKey
    \/ ConfigShow

SpecShow == InitShow /\ [][NextShow]_vars

(***************************************************************************)
(* index.ts: the program parses the command line with exitOverride() set, *)
(* so commander throws a CommanderError where it would have exited; the   *)
(* catch block around parseAsync decides the exit code from the message.  *)
(***************************************************************************)
\* the digits a part of the package version is drawn from
VersionDigits == {"0", "1", "2"}

\* packageJson.version: major.minor.patch
PackageVersions ==
    {<<major, ".", minor, ".", patch>> :
        major \in VersionDigits, minor \in VersionDigits, patch \in VersionDigits}

OutputHelp == <<"o", "u", "t", "p", "u", "t", "H", "e", "l", "p">>
OutputVersion == <<"o", "u", "t", "p", "u", "t", "V", "e", "r", "s", "i", "o", "n">>
HandledVersion == <<"1", ".", "1", ".", "0">>

\* the message of the CommanderError thrown after the help text was written
HelpDisplayed == <<"(">> \o OutputHelp \o <<")">>

\* the words a user can type where a command name is expected
UnknownNames == {<<"x">>, OutputHelp, HandledVersion}

\* the message of the CommanderError for a command name that does not exist
UnknownCommand(name) ==
    <<"e", "r", "r", "o", "r", ":", " ", "u", "n", "k", "n", "o", "w", "n", " ", "c", "o", "m", "m", "a", "n", "d", " ", "'">> \o name \o <<"'">>

\* an Error with this message
ErrorOf(message) == [isError |-> TRUE, message |-> message]

\* process p after process.exit(code)
Exit(p, code) == [p EXCEPT !.exitCode = code, !.pc = "exited"]

\* the catch block around program.parseAsync()
topLevelCatch(p, thrown) ==
    IF thrown.isError /\ Includes(thrown.message, OutputHelp) THEN Exit(p, 0)
    ELSE IF thrown.isError /\ (\/ Includes(thrown.message, OutputVersion)
                                \/ Includes(thrown.message, HandledVersion))
    THEN Exit(p, 0)
    ELSE Exit(Write(p, <<IF thrown.isError
                         THEN ConsoleError(<<"Error:", " ">> \o thrown.message)
                         ELSE ConsoleError(<<"Unknown error occurred">>)>>), 1)

(***************************************************************************)
(* Specification SpecTop: the CLI of a package of any version is run once *)
(* with --help, with --version, with a command name that does not exist,  *)
(* or with a command that runs to its end.                                 *)
(***************************************************************************)
InitTop ==
    /\ store = EmptyStore
    /\ promptedKey = Undefined
    /\ call = NoCall
    /\ run = NoRun
    /\ render = NoRender
    /\ proc \in {[NoProc EXCEPT !.packageVersion = v] : v \in PackageVersions}

\* v0 --help: commander writes the help text and throws
RunHelp ==
    /\ proc.pc = "idle"
    /\ proc' = topLevelCatch(Write([proc EXCEPT !.argv = <<"--help">>],
                                   <<ConsoleLog(<<"Usage: v0 [options] [command]">>)>>),
                             ErrorOf(HelpDisplayed))
    /\ UNCHANGED <<store, promptedKey, call, run, render>>

\* v0 --version: commander writes the version and throws an error whose
\* message is the version
RunVersion ==
    /\ proc.pc = "idle"
    /\ proc' = topLevelCatch(Write([proc EXCEPT !.argv = <<"--version">>],
                                   <<ConsoleLog(proc.packageVersion)>>),
                             ErrorOf(proc.packageVersion))
    /\ UNCHANGED <<store, promptedKey, call, run, render>>

\* v0 <name> for a name that is no command: commander throws
RunUnknownCommand ==
    /\ proc.pc = "idle"
    /\ \E name \in UnknownNames :
          proc' = topLevelCatch(Write([proc EXCEPT !.argv = name],
                                      <<ConsoleError(UnknownCommand(name))>>),
                                ErrorOf(UnknownCommand(name)))
    /\ UNCHANGED <<store, promptedKey, call, run, render>>

\* v0 config show: the action returns and parseAsync resolves
RunConfigShow ==
    /\ proc.pc = "idle"
    /\ proc' = [Write([proc EXCEPT !.argv = <<"config", "show">>, !.cmd = "config show"],
                       showConfig(store))
                   EXCEPT !.pc = "done"]
    /\ UNCHANGED <<store, promptedKey, call, run, render>>

NextTop ==
    \/ RunHelp
    \/ RunVersion
    \/ RunUnknownCommand
    \/ RunConfigShow

SpecTop == InitTop /\ [][NextTop]_vars

(***************************************************************************)
(* commands/deploy.ts (deploy create, deploy from-chat, deploy delete),   *)
(* commands/chat.ts (chat delete), commands/hook.ts (hook delete) and     *)
(* commands/config.ts (config clear), step by step: every awaited SDK     *)
(* call and every awaited prompt is a step.                                *)
(***************************************************************************)
\* the projects and chats of the account: a chat can lack a name and a
\* project
ProjectP == [id |-> <<"p">>, name |-> <<"A">>, projectId |-> Undefined]
ProjectQ == [id |-> <<"q">>, name |-> <<"b">>, projectId |-> Undefined]
ChatC == [id |-> <<"c">>, name |-> <<"A">>, projectId |-> <<"p">>]
ChatD == [id |-> <<"d">>, name |-> Undefined, projectId |-> Undefined]

\* the project with this id
ProjectById(id) == IF id = ProjectP.id THEN ProjectP ELSE ProjectQ

\* what v0.projects.find() and v0.chats.find() can return as data
ProjectLists == {<<>>, <<ProjectP>>, <<ProjectQ, ProjectP>>}
ChatLists == {<<>>, <<ChatC>>, <<ChatD, ChatC>>}

\* the value of --project-name and of --chat-name on the command line
NameOptions == {Undefined, <<"a">>, <<"z">>}

\* the version id given on the command line of deploy create
GivenVersion == <<"9">>

\* the result of Array.prototype.find when no element passes
NoMatch == [id |-> Undefined, name |-> Undefined, projectId |-> Undefined]

\* String.prototype.toLowerCase
toLowerCase(text) ==
    [i \in 1..Len(text) |->
        CASE text[i] = "A" -> "a"
          [] text[i] = "B" -> "b"
          [] text[i] = "Z" -> "z"
          [] OTHER -> text[i]]

\* item.name?.toLowerCase().includes(name.toLowerCase())
nameIncludes(item, name) ==
    /\ item.name # Undefined
    /\ Includes(toLowerCase(item.name), toLowerCase(name))

\* list.find(item => item.name?.toLowerCase().includes(name.toLowerCase()))
findByName(list, name) ==
    LET hits == SelectSeq(list, LAMBDA item : nameIncludes(item, name))
    IN  IF hits = <<>> THEN NoMatch ELSE Head(hits)

\* chats.filter(chat => chat.projectId === projectId)
chatsOfProject(chats, projectId) ==
    SelectSeq(chats, LAMBDA chat : chat.projectId = projectId)

\* the values of the choices of a list prompt
ChoiceValues(list) == {list[i].id : i \in 1..Len(list)}

\* `${item.name || 'Unnamed'} (${item.id})`
NameAndId(item) == Or(item.name, <<"Unnamed">>) \o <<" ", "(">> \o item.id \o <<")">>

\* a delete call of the SDK with the id in its request
DeleteCall(op, id, ok) ==
    [SdkCall(op, Undefined, Undefined, Undefined, ok, Undefined) EXCEPT !.id = id]

\* the commands that delete something
SdkDeletes == {"chat delete", "deploy delete", "hook delete"}
Destructive == SdkDeletes \cup {"config clear"}

\* `Failed to ...: ` of the catch block of each command
FailedTo(cmd) ==
    CASE cmd = "chat delete" -> <<"Failed to delete chat: ">>
      [] cmd = "deploy delete" -> <<"Failed to delete deployment: ">>
      [] cmd = "hook delete" -> <<"Failed to delete hook: ">>
      [] cmd = "config clear" -> <<"Failed to clear configuration: ">>
      [] OTHER -> <<"Failed to create deployment: ">>

\* a catch block that reports the error and lets the action return
catchOp_Returns(p, message) ==
    [Write(p, <<error(FailedTo(p.cmd) \o message)>>)
        EXCEPT !.failed = TRUE, !.pc = "done"]

\* the catch block of the command: error, printSdkError in chat delete and
\* hook delete, process.exit(1)
catchOp(p, message) ==
    Exit([Write(p, <<error(FailedTo(p.cmd) \o message)>>
                   \o IF p.cmd \in {"chat delete", "hook delete"}
                      THEN <<ConsoleError(<<"Details:", " ", "message=">> \o message)>>
                      ELSE <<>>)
             EXCEPT !.failed = TRUE], 1)

\* an SDK call of process p rejected
RejectedOp(p) == catchOp([p EXCEPT !.sdkError = TRUE], SdkErrorMessage)

\* error(text); process.exit(1) inside the action
ExitWithError(p, text) == Exit(Write(p, <<error(text)>>), 1)

\* process p after setting local variables
SetProject(p, id) == [p EXCEPT !.loc.projectId = id]
SetChat(p, id) == [p EXCEPT !.loc.chatId = id]
SetVersion(p, id) == [p EXCEPT !.loc.versionId = id]

\* process p at an awaited list prompt
AskList(p, kind, text) ==
    [Write(p, <<Prompt(text)>>) EXCEPT !.asked = Append(@, kind), !.pc = kind]

\* the requests of the SDK calls of deploy create and deploy from-chat
projectsFind(ok) == SdkCall("projects.find", Undefined, Undefined, Undefined, ok, Undefined)
chatsFind(ok) == SdkCall("chats.find", Undefined, Undefined, Undefined, ok, Undefined)
chatsGetByIdOf(chatId, ok, latestVersion) ==
    SdkCall("chats.getById", Undefined, chatId, Undefined, ok, latestVersion)
projectsGetById(projectId, ok, vercelProjectId) ==
    SdkCall("projects.getById", projectId, Undefined, Undefined, ok, vercelProjectId)

\* the vercelProjectId of a project read by v0.projects.getById
VercelProjectIds == {Undefined, <<"v">>}

\* the request of v0.deployments.create
deploymentsCreate(p, ok) ==
    SdkCall("deployments.create", p.loc.projectId, p.loc.chatId, p.loc.versionId, ok,
            IdOf(DeploymentRecord))

\* the lines deploy create and deploy from-chat print in table format
deploymentDetails(p) ==
    <<ConsoleLog(<<"Deployment Details:">>),
      ConsoleLog(<<"ID: ">> \o Interpolated(DeploymentRecord, KeyId)),
      ConsoleLog(<<"Project ID: ">> \o p.loc.projectId),
      ConsoleLog(<<"Chat ID: ">> \o p.loc.chatId),
      ConsoleLog(<<"Version ID: ">> \o p.loc.versionId),
      ConsoleLog(<<"Inspector URL: ">> \o Interpolated(DeploymentRecord, KeyInspectorUrl)),
      ConsoleLog(<<"Web URL: ">> \o Interpolated(DeploymentRecord, KeyWebUrl))>>

\* deploy create and deploy from-chat after v0.deployments.create returned
deploymentShown(p) ==
    LET q == Write(p, <<SpinnerSucceed(<<"Deployment created successfully!">>)>>)
        r == IF q.format = FmtTable THEN Printed(deploymentDetails(q))
             ELSE formatOutput(DeploymentRecord, q.format, q.yaml)
        shown == [Write(q, r.out) EXCEPT !.rendered = TRUE]
    IN  IF r.threw THEN catchOp(shown, <<"TypeError">>)
        ELSE [Write(shown,
                    <<success(<<"Deployment URL: ">> \o Interpolated(DeploymentRecord, KeyWebUrl)),
                      success(<<"Inspector URL: ">>
                              \o Interpolated(DeploymentRecord, KeyInspectorUrl))>>)
                 EXCEPT !.pc = "done"]

\* a deploy create that lists and asks whatever the command line gave
goesInteractive_Always(p) == TRUE

\* deploy create: the condition under which the action lists the projects
\* and chats and selects what is missing
goesInteractive(p) ==
    \/ ~Truthy(p.loc.projectId)
    \/ ~Truthy(p.loc.chatId)
    \/ ~Truthy(p.loc.versionId)
    \/ p.opts.interactive

\* deploy create: the check of the three ids before the deployment
validateIds(p) ==
    IF ~Truthy(p.loc.projectId) \/ ~Truthy(p.loc.chatId) \/ ~Truthy(p.loc.versionId)
    THEN ExitWithError(p, <<"Missing required IDs. Please provide project, chat, and version IDs.">>)
    ELSE [p EXCEPT !.pc = "createDeployment"]

\* deploy create: the version, once the chat is known
selectVersion(p) ==
    IF ~Truthy(p.loc.versionId) THEN [p EXCEPT !.pc = "getChat"] ELSE validateIds(p)

\* deploy create: the chat, once the project is known
selectChat(p) ==
    IF Truthy(p.loc.chatId) THEN selectVersion(p)
    ELSE IF Truthy(p.opts.chatName)
    THEN LET chat == findByName(p.loc.chats, p.opts.chatName)
         IN  IF Truthy(chat.id)
             THEN selectVersion(Write(SetChat(p, chat.id),
                                      <<info(<<"Selected chat: ">> \o NameAndId(chat))>>))
             ELSE ExitWithError(p, <<"Chat with name containing ", "\"">> \o p.opts.chatName
                                   \o <<"\"", " not found">>)
    ELSE LET relevantChats == IF Truthy(p.loc.projectId)
                              THEN chatsOfProject(p.loc.chats, p.loc.projectId)
                              ELSE p.loc.chats
         IN  IF relevantChats = <<>>
             THEN ExitWithError(p, <<"No chats found for this project. Please create a chat first.">>)
             ELSE AskList(p, "promptChat", <<"Select a chat:">>)

\* deploy create: the project, once the projects and chats are loaded
selectProject(p) ==
    IF Truthy(p.loc.projectId) THEN selectChat(p)
    ELSE IF Truthy(p.opts.projectName)
    THEN LET project == findByName(p.loc.projects, p.opts.projectName)
         IN  IF Truthy(project.id)
             THEN selectChat(Write(SetProject(p, project.id),
                                   <<info(<<"Selected project: ">> \o NameAndId(project))>>))
             ELSE ExitWithError(p, <<"Project with name containing ", "\"">> \o p.opts.projectName
                                   \o <<"\"", " not found">>)
    ELSE IF p.loc.projects = <<>>
    THEN ExitWithError(p, <<"No projects found. Please create a project first.">>)
    ELSE AskList(p, "promptProject", <<"Select a project:">>)

\* deploy create after ensureApiKey: the ids of the command line, the
\* default project for a missing project id
createBegin(p) ==
    LET q == [p EXCEPT !.loc.projectId = Or(Or(p.opts.projectId, p.loc.defaultProject), Undefined),
                       !.loc.chatId = p.opts.chatId,
                       !.loc.versionId = p.opts.versionId]
    IN  IF goesInteractive(q) THEN [q EXCEPT !.pc = "findProjects"] ELSE validateIds(q)

\* the error of deploy from-chat when no project can be resolved
NoProjectForChat ==
    <<"This chat is not associated with a project and no default project is configured. Provide --project-id/--project-name or set a default project via \"v0 config set-default-project\".">>

\* deploy from-chat: a project resolution that prefers the default project
\* to the project of the chat
resolveProject_DefaultFirst(p) ==
    LET resolvedProjectId ==
            IF Truthy(p.loc.projectId) THEN p.loc.projectId
            ELSE Or(Or(p.loc.defaultProject, p.loc.chatProjectId), Undefined)
    IN  IF ~Truthy(resolvedProjectId)
        THEN ExitWithError(p, NoProjectForChat)
        ELSE [SetProject(p, resolvedProjectId) EXCEPT !.pc = "getProject"]

\* deploy from-chat: the project of the chat or the default project when
\* neither --project-id nor --project-name selected one
resolveProject(p) ==
    LET resolvedProjectId ==
            IF Truthy(p.loc.projectId) THEN p.loc.projectId
            ELSE Or(Or(p.loc.chatProjectId, p.loc.defaultProject), Undefined)
    IN  IF ~Truthy(resolvedProjectId)
        THEN ExitWithError(p, NoProjectForChat)
        ELSE [SetProject(p, resolvedProjectId) EXCEPT !.pc = "getProject"]

\* deploy from-chat after v0.chats.getById returned
chatDetailsRetrieved(p, latestVersion, projectId) ==
    LET q == Write([SetVersion(p, latestVersion) EXCEPT !.loc.chatProjectId = projectId],
                   <<SpinnerSucceed(<<"Chat details retrieved">>)>>)
    IN  IF ~Truthy(latestVersion)
        THEN ExitWithError(q, <<"No versions found for this chat. Please generate some code first.">>)
        ELSE IF ~Truthy(q.opts.projectId) /\ Truthy(q.opts.projectName)
        THEN [q EXCEPT !.pc = "findProjectByName"]
        ELSE resolveProject(SetProject(q, q.opts.projectId))

\* deploy from-chat: the chat, once the chats are loaded
selectChatToDeploy(p) ==
    IF Truthy(p.opts.chatName)
    THEN LET chat == findByName(p.loc.chats, p.opts.chatName)
         IN  IF Truthy(chat.id)
             THEN [Write(SetChat(p, chat.id), <<info(<<"Selected chat: ">> \o NameAndId(chat))>>)
                      EXCEPT !.pc = "getChat"]
             ELSE ExitWithError(p, <<"Chat with name containing ", "\"">> \o p.opts.chatName
                                   \o <<"\"", " not found">>)
    ELSE IF p.loc.chats = <<>>
    THEN ExitWithError(p, <<"No chats found. Please create a chat first.">>)
    ELSE AskList(p, "promptChat", <<"Select a chat to deploy:">>)

\* deploy from-chat after ensureApiKey
fromChatBegin(p) ==
    LET q == SetChat(p, p.opts.chatId)
    IN  IF ~Truthy(q.loc.chatId) THEN [q EXCEPT !.pc = "findChats"]
        ELSE [q EXCEPT !.pc = "getChat"]

\* a deploy from-chat that deploys to the selected project whether or not
\* it was read as linked
projectRead_Unchecked(p, vercelProjectId) == [p EXCEPT !.pc = "createDeployment"]

\* deploy from-chat after v0.projects.getById returned the resolved
\* project: deploy to it when it is linked to Vercel, else try the default
\* project when there is another one, else list the projects
projectRead(p, vercelProjectId) ==
    IF Truthy(vercelProjectId) THEN [p EXCEPT !.pc = "createDeployment"]
    ELSE IF Truthy(p.loc.defaultProject) /\ p.loc.defaultProject # p.loc.projectId
    THEN [p EXCEPT !.pc = "getDefaultProject"]
    ELSE [p EXCEPT !.pc = "findAlternatives"]

\* deploy from-chat after v0.projects.getById returned the default project
defaultProjectRead(p, vercelProjectId) ==
    IF Truthy(vercelProjectId)
    THEN [Write(SetProject(p, p.loc.defaultProject),
                <<info(<<"Selected project is not linked to Vercel. Falling back to default project: ">>
                       \o NameAndId(ProjectById(p.loc.defaultProject)))>>)
             EXCEPT !.pc = "createDeployment"]
    ELSE [p EXCEPT !.pc = "findAlternatives"]

\* deploy from-chat after v0.projects.getById returned the project picked
\* at the prompt
altProjectRead(p, vercelProjectId) ==
    IF ~Truthy(vercelProjectId)
    THEN ExitWithError(p, <<"The selected project is still not linked to Vercel. Please link a Vercel project from the project page and retry.">>)
    ELSE [SetProject(p, p.loc.answer) EXCEPT !.pc = "createDeployment"]

\* the question of the confirm prompt of each command
ConfirmQuestion(p) ==
    CASE p.cmd = "chat delete" ->
            <<"Are you sure you want to delete chat ">> \o p.opts.id \o <<"?">>
      [] p.cmd = "deploy delete" ->
            <<"Are you sure you want to delete deployment ">> \o p.opts.id \o <<"?">>
      [] p.cmd = "hook delete" -> <<"Delete hook ">> \o p.opts.id \o <<"?">>
      [] OTHER -> <<"Are you sure you want to clear all configuration? This will remove your API key and other settings.">>

\* a delete command after ensureApiKey: ask unless --force
deleteBegin(p) ==
    IF ~p.opts.force
    THEN [Write(p, <<Prompt(ConfirmQuestion(p))>>)
             EXCEPT !.asked = Append(@, "confirm"), !.pc = "confirm"]
    ELSE [p EXCEPT !.pc = "delete"]

\* the op of the SDK a delete command calls
DeleteOp(cmd) ==
    CASE cmd = "chat delete" -> "chats.delete"
      [] cmd = "deploy delete" -> "deployments.delete"
      [] OTHER -> "hooks.delete"

\* config clear past the confirmation: clearConfig() and the success line
configCleared(p) ==
    [Write(p, <<success(<<"Configuration cleared successfully!">>)>>)
        EXCEPT !.cleared = TRUE, !.pc = "done"]

\* a confirmation whose answer is not looked at
confirmed_Ignored(p, confirm) ==
    IF p.cmd = "config clear" THEN configCleared(p) ELSE [p EXCEPT !.pc = "delete"]

\* a delete command after the confirm prompt resolved
confirmed(p, confirm) ==
    IF ~confirm
    THEN [Write(p, <<info(IF p.cmd = "config clear"
                          THEN <<"Configuration clear cancelled">>
                          ELSE <<"Deletion cancelled">>)>>)
             EXCEPT !.pc = "done"]
    ELSE IF p.cmd = "config clear" THEN configCleared(p)
    ELSE [p EXCEPT !.pc = "delete"]

\* the lines a delete command writes after the SDK call returned
deleted(p) ==
    CASE p.cmd = "chat delete" ->
            <<SpinnerSucceed(<<"Chat deleted successfully!">>),
              success(<<"Chat ">> \o p.opts.id \o <<" has been deleted">>)>>
      [] p.cmd = "deploy delete" ->
            <<SpinnerSucceed(<<"Deployment deleted successfully!">>),
              success(<<"Deployment ">> \o p.opts.id \o <<" has been deleted">>)>>
      [] OTHER ->
            <<SpinnerSucceed(<<"Hook deleted successfully!">>),
              success(<<"Hook ">> \o p.opts.id \o <<" deleted">>)>>

\* deploy create: the chats offered at the prompt
relevantChats(p) ==
    IF p.cmd = "deploy create" /\ Truthy(p.loc.projectId)
    THEN chatsOfProject(p.loc.chats, p.loc.projectId)
    ELSE p.loc.chats

(***************************************************************************)
(* Specification SpecOps: one process runs deploy create, deploy          *)
(* from-chat, chat delete, deploy delete, hook delete or config clear.     *)
(***************************************************************************)
OpsCommands == {"deploy create", "deploy from-chat"} \cup SdkDeletes

\* the stores an earlier session can have left
OpsStores ==
    {[apiKey |-> k, defaultProject |-> d, baseUrl |-> Undefined, outputFormat |-> f] :
        k \in {Undefined, <<"s">>}, d \in {Undefined, <<"q">>}, f \in {Undefined, FmtJson}}

\* the positional arguments of deploy create: the first n of [projectId]
\* [chatId] [versionId]
Positional(n) ==
    [NoOptions EXCEPT !.projectId = IF n >= 1 THEN <<"p">> ELSE Undefined,
                      !.chatId = IF n >= 2 THEN <<"c">> ELSE Undefined,
                      !.versionId = IF n >= 3 THEN GivenVersion ELSE Undefined]

\* the command lines of each command
CommandLines(cmd) ==
    CASE cmd = "deploy create" ->
            {[Positional(n) EXCEPT !.interactive = i, !.projectName = pn, !.chatName = cn] :
                n \in 0..3, i \in BOOLEAN, pn \in NameOptions, cn \in NameOptions}
      [] cmd = "deploy from-chat" ->
            {[NoOptions EXCEPT !.chatId = c, !.projectId = pid, !.projectName = pn,
                               !.chatName = cn] :
                c \in {Undefined, <<"c">>}, pid \in {Undefined, <<"p">>},
                pn \in NameOptions, cn \in NameOptions}
      [] OTHER -> {[NoOptions EXCEPT !.id = <<"x">>, !.force = f] : f \in BOOLEAN}

InitOps ==
    /\ store \in OpsStores
    /\ promptedKey = Undefined
    /\ call = NoCall
    /\ run = NoRun
    /\ render = NoRender
    /\ proc = NoProc

\* the action of a command that talks to the SDK starts: ensureApiKey,
\* getConfig, then the code up to the first await
StartOp ==
    /\ proc.pc = "idle"
    /\ \E cmd \in OpsCommands, answer \in PromptAnswers :
        \E opts \in CommandLines(cmd) :
          LET e == ensureApiKey(store, Undefined, Undefined, answer)
              config == getConfig(e.store)
              p == Write([proc EXCEPT !.cmd = cmd, !.opts = opts,
                                      !.format = config.outputFormat,
                                      !.storeAsked = e.store,
                                      !.loc.defaultProject = config.defaultProject],
                         ensureApiKeyOutput(e))
          IN  /\ e.prompted \/ answer = Undefined
              /\ store' = e.store
              /\ proc' = IF e.threw THEN catchOp(p, <<"prompt">>)
                         ELSE CASE cmd = "deploy create" -> createBegin(p)
                                [] cmd = "deploy from-chat" -> fromChatBegin(p)
                                [] OTHER -> deleteBegin(p)
    /\ UNCHANGED <<promptedKey, call, run, render>>

\* config clear starts: with --force it clears at once, else it asks
ConfigClear ==
    /\ proc.pc = "idle"
    /\ \E force \in BOOLEAN :
          LET p == [proc EXCEPT !.cmd = "config clear", !.opts.force = force,
                                !.storeAsked = store]
          IN  /\ proc' = IF force THEN configCleared(p) ELSE deleteBegin(p)
              /\ IF proc'.cleared THEN store' \in clearConfig(store) ELSE store' = store
    /\ UNCHANGED <<promptedKey, call, run, render>>

\* the confirm prompt resolves
Confirm ==
    /\ proc.pc = "confirm"
    /\ \E confirm \in BOOLEAN :
          /\ proc' = confirmed([proc EXCEPT !.asked = Append(@, IF confirm THEN "yes" ELSE "no")],
                               confirm)
          /\ IF proc'.cleared THEN store' \in clearConfig(store) ELSE store' = store
    /\ UNCHANGED <<promptedKey, call, run, render>>

\* v0.chats.delete, v0.deployments.delete or v0.hooks.delete returns or
\* rejects
Delete ==
    /\ proc.pc = "delete"
    /\ \/ proc' = [Write(Called(proc, DeleteCall(DeleteOp(proc.cmd), proc.opts.id, TRUE)),
                         deleted(proc))
                      EXCEPT !.pc = "done"]
       \/ proc' = RejectedOp(Called(proc, DeleteCall(DeleteOp(proc.cmd), proc.opts.id, FALSE)))
    /\ UNCHANGED <<store, promptedKey, call, run, render>>

\* deploy create: v0.projects.find returns or rejects
FindProjects ==
    /\ proc.pc = "findProjects"
    /\ \/ \E projects \in ProjectLists :
             proc' = [Called(proc, projectsFind(TRUE)) EXCEPT
                         !.loc.projects = projects, !.pc = "findChats"]
       \/ proc' = RejectedOp(Called(proc, projectsFind(FALSE)))
    /\ UNCHANGED <<store, promptedKey, call, run, render>>

\* v0.chats.find returns or rejects; then the selection up to the next
\* await
FindChats ==
    /\ proc.pc = "findChats"
    /\ \/ \E chats \in ChatLists :
             LET p == [Called(proc, chatsFind(TRUE)) EXCEPT !.loc.chats = chats]
             IN  proc' = IF p.cmd = "deploy create"
                         THEN selectProject(Write(p, <<SpinnerSucceed(<<"Resources loaded">>)>>))
                         ELSE selectChatToDeploy(Write(p, <<SpinnerSucceed(<<"Chats loaded">>)>>))
       \/ proc' = RejectedOp(Called(proc, chatsFind(FALSE)))
    /\ UNCHANGED <<store, promptedKey, call, run, render>>

\* deploy create: the project prompt resolves
PromptProject ==
    /\ proc.pc = "promptProject"
    /\ \E projectId \in ChoiceValues(proc.loc.projects) :
          proc' = selectChat(SetProject(proc, projectId))
    /\ UNCHANGED <<store, promptedKey, call, run, render>>

\* the chat prompt resolves
PromptChat ==
    /\ proc.pc = "promptChat"
    /\ \E chatId \in ChoiceValues(relevantChats(proc)) :
          proc' = IF proc.cmd = "deploy create" THEN selectVersion(SetChat(proc, chatId))
                  ELSE [SetChat(proc, chatId) EXCEPT !.pc = "getChat"]
    /\ UNCHANGED <<store, promptedKey, call, run, render>>

\* v0.chats.getById returns the chat, with or without a latest version and
\* a project, or rejects
GetChatDetails ==
    /\ proc.pc = "getChat"
    /\ \/ \E latestVersion \in LatestVersions, projectId \in {Undefined, <<"p">>} :
             LET p == Called(proc, chatsGetByIdOf(proc.loc.chatId, TRUE, latestVersion))
             IN  proc' =
                   IF p.cmd = "deploy from-chat"
                   THEN chatDetailsRetrieved(p, latestVersion, projectId)
                   ELSE IF ~Truthy(latestVersion)
                   THEN ExitWithError(p, <<"No versions found for this chat. Please generate some code first.">>)
                   ELSE validateIds(Write(SetVersion(p, latestVersion),
                                          <<info(<<"Using latest version: ">> \o latestVersion)>>))
       \/ proc' = RejectedOp(Called(proc, chatsGetByIdOf(proc.loc.chatId, FALSE, Undefined)))
    /\ UNCHANGED <<store, promptedKey, call, run, render>>

\* deploy from-chat --project-name: v0.projects.find returns or rejects
FindProjectByName ==
    /\ proc.pc = "findProjectByName"
    /\ \/ \E projects \in ProjectLists :
             LET p == [Called(proc, projectsFind(TRUE)) EXCEPT !.loc.projects = projects]
                 match == findByName(projects, p.opts.projectName)
             IN  proc' =
                   IF ~Truthy(match.id)
                   THEN ExitWithError(p, <<"Project with name containing ", "\"">>
                                         \o p.opts.projectName \o <<"\"", " not found">>)
                   ELSE resolveProject(
                            Write([SetProject(p, match.id) EXCEPT !.loc.match = match.id],
                                  <<info(<<"Selected project by name: ">> \o NameAndId(match))>>))
       \/ proc' = RejectedOp(Called(proc, projectsFind(FALSE)))
    /\ UNCHANGED <<store, promptedKey, call, run, render>>

\* deploy from-chat: v0.projects.getById of the resolved project
GetProject ==
    /\ proc.pc = "getProject"
    /\ \/ \E vercelProjectId \in VercelProjectIds :
             proc' = projectRead(Called(proc, projectsGetById(proc.loc.projectId, TRUE,
                                                              vercelProjectId)),
                                 vercelProjectId)
       \/ proc' = RejectedOp(Called(proc, projectsGetById(proc.loc.projectId, FALSE, Undefined)))
    /\ UNCHANGED <<store, promptedKey, call, run, render>>

\* deploy from-chat: v0.projects.getById of the default project
GetDefaultProject ==
    /\ proc.pc = "getDefaultProject"
    /\ \/ \E vercelProjectId \in VercelProjectIds :
             proc' = defaultProjectRead(
                         Called(proc, projectsGetById(proc.loc.defaultProject, TRUE,
                                                      vercelProjectId)),
                         vercelProjectId)
       \/ proc' = RejectedOp(Called(proc, projectsGetById(proc.loc.defaultProject, FALSE,
                                                          Undefined)))
    /\ UNCHANGED <<store, promptedKey, call, run, render>>

\* deploy from-chat: v0.projects.find for the selection of another project
FindAlternatives ==
    /\ proc.pc = "findAlternatives"
    /\ \/ \E projects \in ProjectLists :
             LET p == [Called(proc, projectsFind(TRUE)) EXCEPT !.loc.projects = projects]
             IN  proc' =
                   IF projects = <<>>
                   THEN ExitWithError(p, <<"No projects found in your account. Create one first.">>)
                   ELSE AskList(p, "promptAltProject",
                                <<"Selected project is not linked to Vercel. Select a different project to deploy (must be Vercel-linked):">>)
       \/ proc' = RejectedOp(Called(proc, projectsFind(FALSE)))
    /\ UNCHANGED <<store, promptedKey, call, run, render>>

\* deploy from-chat: the prompt for another project resolves
PromptAltProject ==
    /\ proc.pc = "promptAltProject"
    /\ \E projectId \in ChoiceValues(proc.loc.projects) :
          proc' = [proc EXCEPT !.loc.answer = projectId, !.pc = "getAltProject"]
    /\ UNCHANGED <<store, promptedKey, call, run, render>>

\* deploy from-chat: v0.projects.getById of the project picked
GetAltProject ==
    /\ proc.pc = "getAltProject"
    /\ \/ \E vercelProjectId \in VercelProjectIds :
             proc' = altProjectRead(Called(proc, projectsGetById(proc.loc.answer, TRUE,
                                                                 vercelProjectId)),
                                    vercelProjectId)
       \/ proc' = RejectedOp(Called(proc, projectsGetById(proc.loc.answer, FALSE, Undefined)))
    /\ UNCHANGED <<store, promptedKey, call, run, render>>

\* deploy create and deploy from-chat: v0.deployments.create returns or
\* rejects
CreateDeploymentOp ==
    /\ proc.pc = "createDeployment"
    /\ \/ proc' = deploymentShown([Called(proc, deploymentsCreate(proc, TRUE))
                                      EXCEPT !.deployed = TRUE])
       \/ proc' = RejectedOp([Called(proc, deploymentsCreate(proc, FALSE))
                                 EXCEPT !.deployed = TRUE])
    /\ UNCHANGED <<store, promptedKey, call, run, render>>

NextOps ==
    \/ StartOp
    \/ ConfigClear
    \/ Confirm
    \/ Delete
    \/ FindProjects
    \/ FindChats
    \/ PromptProject
    \/ PromptChat
    \/ GetChatDetails
    \/ FindProjectByName
    \/ GetProject
    \/ GetDefaultProject
    \/ FindAlternatives
    \/ PromptAltProject
    \/ GetAltProject
    \/ CreateDeploymentOp

SpecOps == InitOps /\ [][NextOps]_vars

(***************************************************************************)
(* Claims about utils/config.ts.                                           *)
(***************************************************************************)
\* a string that is given and not made of blanks only
NonBlank(x) == x # Undefined /\ Len(Trim(x)) > 0

FirstNonBlank(a, b, c) ==
    IF NonBlank(a) THEN a ELSE IF NonBlank(b) THEN b ELSE IF NonBlank(c) THEN c
    ELSE Undefined

\* C4: resolveBaseUrl treats a whitespace-only candidate as absent at every
\* level: its result is the first non-blank of the argument, V0_BASE_URL and
\* the stored baseUrl, and absent when none is non-blank.
C4_WhitespaceFallsThrough ==
    call.op = "resolveBaseUrl" =>
        call.result = FirstNonBlank(call.arg, call.env, ConfGet(call.before, "baseUrl"))

\* C5: resolveBaseUrl called with a non-blank argument returns exactly that
\* argument, whatever V0_BASE_URL and the stored baseUrl are.
C5_PreferredWins ==
    (call.op = "resolveBaseUrl" /\ NonBlank(call.arg)) => call.result = call.arg

\* a call with a non-blank argument, and a different non-blank value both in
\* the environment and in the store
C5_Witness ==
    /\ call.op = "resolveBaseUrl"
    /\ NonBlank(call.arg) /\ NonBlank(call.env)
    /\ NonBlank(ConfGet(call.before, "baseUrl"))
    /\ call.env # call.arg /\ ConfGet(call.before, "baseUrl") # call.arg
    /\ call.result = call.arg

\* C6: ensureApiKey prompts only when the argument, V0_API_KEY and the stored
\* key are all empty; the prompt ends only with a non-blank answer, which is
\* stored and returned; a call that finds a key does not prompt and leaves
\* the store as it was; and once a prompt has saved a key, a call without
\* argument and environment key returns that key without prompting for as
\* long as the stored key is not rewritten or cleared.
C6_PromptOnceThenStored ==
    call.op = "ensureApiKey" =>
        /\ call.prompted =>
               /\ ~Truthy(call.arg) /\ ~Truthy(call.env)
               /\ ~Truthy(getConfig(call.before).apiKey)
        /\ (call.prompted /\ ~call.threw) =>
               /\ NonBlank(call.result)
               /\ store = [call.before EXCEPT !["apiKey"] = call.result]
               /\ getConfig(store).apiKey = call.result
        /\ (~call.prompted \/ call.threw) => store = call.before
        /\ (call.saved # Undefined /\ ~Truthy(call.arg) /\ ~Truthy(call.env)) =>
               /\ ~call.prompted /\ ~call.threw
               /\ call.result = call.saved

\* a call without argument and environment key, made after a prompt saved a
\* key and other calls were made, returns the saved key without prompting
C6_Witness ==
    /\ call.op = "ensureApiKey"
    /\ call.saved # Undefined
    /\ ~Truthy(call.arg) /\ ~Truthy(call.env)
    /\ ~call.prompted
    /\ call.result = call.saved
    /\ ConfGet(store, "outputFormat") = FmtYaml

DefaultConfig ==
    [apiKey |-> <<>>, defaultProject |-> <<>>, baseUrl |-> <<>>, outputFormat |-> FmtTable]

\* C7: in every state of the store getConfig().outputFormat is one of json,
\* table, yaml: the stored value when that is one of the three, table when
\* the stored value is absent or anything else; and setConfig of a valid
\* format is read back by getConfig.
C7_FormatAlwaysValid ==
    LET stored == ConfGet(store, "outputFormat")
        read == getConfig(store).outputFormat
    IN  /\ read \in OutputFormats
        /\ stored \in OutputFormats => read = stored
        /\ stored \notin OutputFormats => read = FmtTable
        /\ (call.op = "setConfig" /\ call.key = "outputFormat"
              /\ call.arg \in OutputFormats) => (~call.threw /\ read = call.arg)
        /\ call.op = "getConfig" => call.cfg = getConfig(call.before)

\* getConfig reads a store whose outputFormat was set to a value outside the
\* enum, and returns table
C7_Witness ==
    /\ call.op = "getConfig"
    /\ ConfGet(call.before, "outputFormat") = FmtXml
    /\ call.cfg.outputFormat = FmtTable

\* C8: at the start and right after clearConfig, whatever was set before,
\* getConfig returns the defaults: apiKey "", defaultProject "", baseUrl "",
\* outputFormat table.
C8_ClearRestoresDefaults ==
    call.op \in {"none", "clearConfig"} => getConfig(store) = DefaultConfig

\* clearConfig on a store in which all four fields had been set
C8_Witness ==
    /\ call.op = "clearConfig"
    /\ \A k \in ConfigKeys : Truthy(ConfGet(call.before, k))
    /\ ConfGet(call.before, "outputFormat") = FmtJson
    /\ store = EmptyStore

(***************************************************************************)
(* Claims about the resolution of key, format and base URL in commands.   *)
(***************************************************************************)
FirstTruthy(a, b, c, d) == Or(Or(Or(a, b), c), d)

\* C1: every command that creates the SDK client creates it with the key
\* chosen by precedence: the --api-key flag, else V0_API_KEY, else the saved
\* key, else the key typed at the prompt.
C1_ApiKeyPrecedence ==
    run.client.created =>
        run.client.apiKey = FirstTruthy(run.g.apiKey, run.env.V0_API_KEY,
                                        getConfig(run.before).apiKey, run.answer)

\* C2: every command that renders with --output renders in the per-command
\* --output value, else the global --output value, else the saved format.
C2_OutputPrecedence ==
    run.printer \in {"formatOutput", "formatUser"} =>
        run.format = Or(Or(run.outputFlag, run.g.output),
                        getConfig(run.before).outputFormat)

\* C3: chat and project commands create the client with the resolved base
\* URL: the --base-url flag when given, V0_BASE_URL when the flag is absent.
C3_BaseUrlPassed ==
    (run.cmd \in {"chat list", "project list"} /\ run.client.created) =>
        /\ Truthy(run.g.baseUrl) => run.client.baseUrl = run.g.baseUrl
        /\ (run.g.baseUrl = Undefined /\ Truthy(run.env.V0_BASE_URL)) =>
               run.client.baseUrl = run.env.V0_BASE_URL

(***************************************************************************)
(* Claims about utils/output.ts.                                           *)
(***************************************************************************)
\* C9: formatOutput never throws in table format for a list of any mix of
\* records, scalars, null and nested values, nor for a record or a scalar.
C9_TableNeverThrows ==
    (~render.pending /\ render.format = FmtTable /\ IsJsonValue(render.data)) =>
        ~render.threw

\* what formatOutput in yaml format is claimed to do: return normally, and
\* print what the json branch prints when the yaml package failed
YamlRecovered ==
    /\ ~render.threw
    /\ render.yaml = "throws" => render.out = formatOutput(render.data, FmtJson, "ok").out

Rendered(fmt) == ~render.pending /\ render.format = fmt

\* every console call of the render wrote a text to standard output
AllStdoutText ==
    \A i \in 1..Len(render.out) :
        render.out[i].stream = "stdout" /\ render.out[i].kind = "text"

\* text i of what was printed
Line(i) == render.out[i].text

\* text without its blanks and line breaks
Unspaced(text) == SelectSeq(text, LAMBDA c : c \notin {" ", "\n"})

\* C12: formatOutput(data, 'json') writes exactly one output to standard
\* output, the 2-space-indented JSON serialization of data, key order kept,
\* for every record and list that JSON.stringify serializes; without its
\* layout the output is the compact serialization.
C12_JsonExactlyOnce ==
    (Rendered(FmtJson) /\ render.data.t \in {"object", "array"} /\ ~JsonThrows(render.data)) =>
        /\ ~render.threw
        /\ Len(render.out) = 1
        /\ AllStdoutText
        /\ Line(1) = JSONstringify(render.data, 2).text
        /\ Unspaced(Line(1)) = JSONstringify(render.data, 0).text

\* C12 witness: the record {id: 7, name: null} was printed in json format as
\* four lines, id before name, indented by two blanks.
C12_Witness ==
    /\ Rendered(FmtJson)
    /\ render.data = JObj(<<KeyId, KeyName>>, <<JNum(7), JNull>>)
    /\ Len(render.out) = 1
    /\ Line(1) = <<"{", "\n", " ", " ", "\"", "i", "d", "\"", ":", " ", "7", ",", "\n",
                   " ", " ", "\"", "n", "a", "m", "e", "\"", ":", " ",
                   "n", "u", "l", "l", "\n", "}">>

\* data is a non-empty list of records holding JSON values only
IsRecordList(data) ==
    /\ data.t = "array"
    /\ Len(data.items) > 0
    /\ \A i \in 1..Len(data.items) : data.items[i].t = "object"
    /\ IsJsonValue(data)

\* the first position of sep in text, 0 when there is none
FirstAt(text, sep) ==
    LET at == {i \in 1..(Len(text) - Len(sep) + 1) : SubSeq(text, i, i + Len(sep) - 1) = sep}
    IN  IF at = {} THEN 0 ELSE CHOOSE i \in at : \A j \in at : i <= j

RECURSIVE Split(_, _)
\* the pieces of text between the occurrences of sep
Split(text, sep) ==
    LET p == FirstAt(text, sep)
    IN  IF p = 0 THEN <<text>>
        ELSE <<SubSeq(text, 1, p - 1)>> \o Split(SubSeq(text, p + Len(sep), Len(text)), sep)

ColumnSeparator == <<" ", "|", " ">>

\* the columns of a printed table line, as printed and without padding
Columns(text) == Split(text, ColumnSeparator)
Cells(text) == [c \in 1..Len(Columns(text)) |-> Trim(Columns(text)[c])]

RECURSIVE AllKeys(_)
\* the keys of all records one after the other, and of these the first
\* occurrence of each
AllKeys(rows) ==
    IF rows = <<>> THEN <<>> ELSE Head(rows).keys \o AllKeys(Tail(rows))

UnionOfKeys(rows) ==
    LET all == AllKeys(rows)
        first == SelectSeq([i \in 1..Len(all) |-> i],
                           LAMBDA i : \A j \in 1..(i - 1) : all[j] # all[i])
    IN  [j \in 1..Len(first) |-> all[first[j]]]

HasKey(row, key) == \E k \in 1..Len(row.keys) : row.keys[k] = key

\* C13: in table format the header of a non-empty list of records holds the
\* union of the keys of all records, each once and in first-seen order, and
\* a record without a key prints a padding-only cell in that column.
C13_HeaderIsUnionOfKeys ==
    (Rendered(FmtTable) /\ IsRecordList(render.data)) =>
        LET rows == render.data.items
            headers == UnionOfKeys(rows)
        IN  /\ ~render.threw
            /\ Len(render.out) = Len(rows) + 2
            /\ AllStdoutText
            /\ Cells(Line(1)) = headers
            /\ \A r \in 1..Len(rows) :
                  /\ Len(Columns(Line(r + 2))) = Len(headers)
                  /\ \A c \in 1..Len(headers) :
                        ~HasKey(rows[r], headers[c]) => Cells(Line(r + 2))[c] = <<>>

\* C13 witness: [{id: '1'}, {name: 'X'}] was printed with the header id,
\* name; the name cell of the first row and the id cell of the second are
\* empty.
C13_Witness ==
    /\ Rendered(FmtTable)
    /\ render.data = JArr(<<JObj(<<KeyId>>, <<JStr(<<"1">>)>>), JObj(<<KeyName>>, <<JStr(<<"X">>)>>)>>)
    /\ Len(render.out) = 4
    /\ Cells(Line(1)) = <<KeyId, KeyName>>
    /\ Cells(Line(3)) = <<<<"1">>, <<>>>>
    /\ Cells(Line(4)) = <<<<>>, <<"X">>>>

\* C14: in table format for a list of records no column is printed wider
\* than 40 characters, in the header line and in every row.
C14_ColumnsAtMostForty ==
    (Rendered(FmtTable) /\ IsRecordList(render.data)) =>
        /\ ~render.threw
        /\ \A i \in (1..Len(render.out)) \ {2} :
              \A c \in 1..Len(Columns(Line(i))) :
                  Len(Columns(Line(i))[c]) <= maxColumnWidth

\* a scalar as the table prints it before truncation
ScalarText(v) ==
    CASE v.t = "null" -> <<>>
      [] v.t = "string" -> v.s
      [] v.t = "number" -> NumText(v.n)
      [] v.t = "boolean" -> BoolText(v.b)

IsScalar(v) == v.t \in {"null", "string", "number", "boolean"}

\* data is a non-empty list of scalars
IsScalarList(data) ==
    /\ data.t = "array"
    /\ Len(data.items) > 0
    /\ \A i \in 1..Len(data.items) : IsScalar(data.items[i])

\* shown is what truncation to limit makes of original
TruncatedTo(shown, original, limit) ==
    IF Len(original) <= limit THEN shown = original
    ELSE /\ Len(shown) = limit
         /\ SubSeq(shown, 1, limit - 1) = SubSeq(original, 1, limit - 1)
         /\ shown[limit] = Ellipsis

\* the text of list line i after its "i. " prefix
ItemText(i) == SubSeq(Line(i), Len(NatText(i)) + 3, Len(Line(i)))

\* data is a list of records that all have the one key `key`, a string
IsOneColumn(data, key) ==
    /\ IsRecordList(data)
    /\ \A r \in 1..Len(data.items) :
          data.items[r].keys = <<key>> /\ data.items[r].items[1].t = "string"

\* C15: a value no longer than the limit (40 in a table cell, 120 in a list
\* item) is printed unchanged, a longer one as exactly limit characters: its
\* first limit - 1 characters and one ellipsis.
C15_TruncationRule ==
    /\ (Rendered(FmtTable) /\ IsScalarList(render.data) /\ ~render.threw) =>
          \A i \in 1..Len(render.out) :
              TruncatedTo(ItemText(i), ScalarText(render.data.items[i]), listItemWidth)
    /\ (Rendered(FmtTable) /\ IsOneColumn(render.data, KeyId) /\ ~render.threw) =>
          \A r \in 1..Len(render.data.items) :
              TruncatedTo(Trim(Line(r + 2)), render.data.items[r].items[1].s, maxColumnWidth)

\* C15 witness: a 45-character cell was printed as 40 characters ending in
\* the ellipsis, and a 40-character cell in full.
C15_Witness ==
    /\ Rendered(FmtTable)
    /\ render.data = JArr(<<JObj(<<KeyId>>, <<JStr(LongText)>>)>>)
    /\ Len(render.out) = 3
    /\ Line(3) = SubSeq(LongText, 1, maxColumnWidth - 1) \o <<Ellipsis>>

\* C16: in table format for a non-empty list of records the separator line
\* is made of dashes and is as long as the header line, and so is every row.
C16_LinesAligned ==
    (Rendered(FmtTable) /\ IsRecordList(render.data)) =>
        /\ ~render.threw
        /\ Len(render.out) = Len(render.data.items) + 2
        /\ Line(2) = Repeat(<<"-">>, Len(Line(1)))
        /\ \A i \in 3..Len(render.out) : Len(Line(i)) = Len(Line(1))

\* C17: formatOutput([], 'table') prints exactly one line, the "No items
\* found" placeholder, and no header or separator line.
C17_EmptyListOneLine ==
    (Rendered(FmtTable) /\ render.data = JArr(<<>>)) =>
        /\ ~render.threw
        /\ Len(render.out) = 1
        /\ AllStdoutText
        /\ Line(1) = NoItemsFound

\* C17 witness: the empty list was rendered in table format.
C17_Witness ==
    /\ Rendered(FmtTable)
    /\ render.data = JArr(<<>>)
    /\ render.out # <<>>

\* what truncate makes of a text no longer than limit, or longer
Cut(text, limit) ==
    IF Len(text) <= limit THEN text ELSE SubSeq(text, 1, limit - 1) \o <<Ellipsis>>

\* C18: in table format a non-empty list of scalars prints one line per
\* element in list order, line i being "i. " and the element stringified and
\* truncated to 120 characters; null stringifies to the empty string.
C18_ScalarListLines ==
    (Rendered(FmtTable) /\ IsScalarList(render.data)) =>
        /\ ~render.threw
        /\ Len(render.out) = Len(render.data.items)
        /\ AllStdoutText
        /\ \A i \in 1..Len(render.out) :
              Line(i) = NatText(i) \o <<".", " ">>
                        \o Cut(ScalarText(render.data.items[i]), listItemWidth)

\* C18 witness: the list [null, <121 characters>, 1] was printed as "1. ",
\* a truncated second line and "3. 1".
C18_Witness ==
    /\ Rendered(FmtTable)
    /\ render.data = JArr(<<JNull, JStr(LongItem), JNum(1)>>)
    /\ Len(render.out) = 3
    /\ Line(1) = <<"1", ".", " ">>
    /\ Len(Line(2)) = listItemWidth + 3
    /\ Line(3) = <<"3", ".", " ", "1">>

(***************************************************************************)
(* Claims about the message helpers.                                       *)
(***************************************************************************)
\* the glyph each helper is documented to print
GlyphOf(helper) ==
    CASE helper = "success" -> GlyphSuccess
      [] helper = "error" -> GlyphError
      [] helper = "info" -> GlyphInfo
      [] helper = "warning" -> GlyphWarning

\* C19: error writes only to standard error and success, info and warning
\* only to standard output; each call writes one message: the helper's own
\* glyph, then the given text.
C19_HelperStreams ==
    proc.cmd = "helpers" =>
        /\ Len(proc.console) = Len(proc.calls)
        /\ \A i \in 1..Len(proc.calls) :
              /\ proc.console[i].stream =
                    (IF proc.calls[i].helper = "error" THEN "stderr" ELSE "stdout")
              /\ Head(proc.console[i].text) = GlyphOf(proc.calls[i].helper)
              /\ SubSeq(proc.console[i].text, 3, Len(proc.console[i].text)) = proc.calls[i].message
        /\ \A h1, h2 \in Helpers : h1 # h2 => GlyphOf(h1) # GlyphOf(h2)

\* C19 witness: error was called and then another helper; the first wrote to
\* standard error, the second to standard output.
C19_Witness ==
    /\ proc.cmd = "helpers"
    /\ Len(proc.calls) = 2
    /\ proc.calls[1].helper = "error"
    /\ proc.calls[2].helper = "warning"
    /\ proc.console[1].stream = "stderr"
    /\ proc.console[2].stream = "stdout"

(***************************************************************************)
(* Claims about chat create and deploy quick.                              *)
(***************************************************************************)
\* what the process wrote to standard output, in order
Stdout == SelectSeq(proc.console, LAMBDA entry : entry.stream = "stdout")

\* the command has ended normally after rendering its result in format fmt
Succeeded(fmt) ==
    /\ proc.cmd \in FlowCommands
    /\ proc.pc = "done"
    /\ proc.exitCode = 0
    /\ proc.format = fmt
    /\ proc.rendered

\* the result the command renders
Result == IF proc.cmd = "chat create" THEN ChatRecord ELSE QuickDeployResult

\* C11: when chat create or deploy quick succeeds with output format json,
\* all it wrote to standard output is one JSON document, the result; no
\* status or success message is written to standard output with it.
C11_JsonStdoutIsOneDocument ==
    Succeeded(FmtJson) =>
        /\ Len(Stdout) = 1
        /\ Stdout[1].text = JSONstringify(Result, 2).text

\* the poll loop of deploy quick ran to the end of its window and no call
\* was rejected, the chat still has no latest version, and the process has
\* gone on from the loop
PollTimedOut ==
    /\ proc.cmd = "deploy quick"
    /\ proc.pc \in {"done", "exited", "createDeployment"}
    /\ ~proc.sdkError
    /\ ~proc.hasVersion
    /\ proc.elapsed >= pollWindow

\* C20: when the chat of deploy quick has no latest version at the end of
\* the poll window, the command reports "not ready yet" and ends normally:
\* deployments.create is not called, the error path is not taken, the exit
\* code is 0.
C20_PollTimeoutEndsNormally ==
    PollTimedOut =>
        /\ proc.pc = "done"
        /\ proc.notReady
        /\ ~proc.deployed
        /\ ~proc.failed
        /\ proc.exitCode = 0
        /\ ~proc.rendered
        /\ \E i \in 1..Len(proc.console) :
              /\ proc.console[i].kind = "fail"
              /\ i < Len(proc.console)
              /\ proc.console[i + 1] = info(<<"Chat URL: ">> \o Interpolated(ChatRecord, KeyWebUrl))

\* C20 witness: deploy quick polled until the window of 60 s was over, saw
\* no latest version, and has ended with the "not ready" report.
C20_Witness ==
    /\ PollTimedOut
    /\ proc.pc = "done"
    /\ proc.notReady
    /\ proc.elapsed >= pollWindow

\* the most status reads one poll loop can make: the first read, then one
\* per pause that starts inside the window
MaxReads == pollWindow \div pollInterval + 1

\* the step is a status read made by the while loop of deploy quick
LoopRead == proc.pc = "poll" /\ proc'.reads = proc.reads + 1

\* C21: the poll loop of deploy quick always terminates when each status
\* read returns: it reads again only while no read has shown a latest
\* version and fewer than 60 s have passed since polling began, each further
\* read comes at least 3 s after the one before, it never makes more than 21
\* status reads, and a process in the loop always leaves it.
C21_PollLoopTerminates ==
    /\ [](proc.reads <= MaxReads)
    /\ [][LoopRead => ~proc.hasVersion /\ proc.elapsed < pollWindow]_vars
    /\ [][LoopRead => proc'.elapsed >= proc.elapsed + pollInterval]_vars
    /\ [][proc.pc = "poll" /\ proc'.pc = "poll" => LoopRead]_vars
    /\ (proc.pc = "poll") ~> (proc.pc # "poll")

\* C21 witness: with instantaneous reads the loop made its 21st status
\* read exactly when the window of 60 s was over, and deploy quick gave up.
C21_Witness ==
    /\ proc.cmd = "deploy quick"
    /\ proc.pc = "done"
    /\ proc.notReady
    /\ proc.reads = MaxReads
    /\ proc.elapsed = pollWindow

\* the calls deploy quick has made to the SDK, the status reads left out
Creates == SelectSeq(proc.sdk, LAMBDA c : c.op # "chats.getById")

\* the last status read made before call i of the log
LastReadBefore(i) ==
    CHOOSE j \in 1..(i - 1) :
        /\ proc.sdk[j].op = "chats.getById"
        /\ \A k \in (j + 1)..(i - 1) : proc.sdk[k].op # "chats.getById"

\* C22: deploy quick calls projects.create, then chats.create with the id
\* of the project that call returned, then deployments.create with that
\* project id, the id of the chat created and the latest version id of the
\* last read of that chat; every call is made after all earlier calls have
\* returned, and after a call that failed no further call is made.
C22_QuickChainsCalls ==
    proc.cmd = "deploy quick" =>
        /\ \A i \in 1..(Len(proc.sdk) - 1) : proc.sdk[i].ok
        /\ Len(Creates) <= 3
        /\ Len(Creates) >= 1 =>
              /\ Creates[1].op = "projects.create"
              /\ proc.sdk[1] = Creates[1]
        /\ Len(Creates) >= 2 =>
              /\ Creates[2].op = "chats.create"
              /\ proc.sdk[2] = Creates[2]
              /\ Creates[2].projectId = Creates[1].returned
              /\ Truthy(Creates[2].projectId)
        /\ \A i \in 1..Len(proc.sdk) :
              proc.sdk[i].op = "chats.getById" =>
                  i > 2 /\ proc.sdk[i].chatId = Creates[2].returned
        /\ Len(Creates) = 3 =>
              /\ Creates[3].op = "deployments.create"
              /\ proc.sdk[Len(proc.sdk)] = Creates[3]
              /\ Len(proc.sdk) >= 4
              /\ Creates[3].projectId = Creates[1].returned
              /\ Creates[3].chatId = Creates[2].returned
              /\ Creates[3].versionId = proc.sdk[LastReadBefore(Len(proc.sdk))].returned
              /\ Truthy(Creates[3].versionId)

\* C22 witness: deploy quick made its three calls, polling in between, and
\* the deployment was created.
C22_Witness ==
    /\ proc.cmd = "deploy quick"
    /\ proc.pc = "done"
    /\ Len(Creates) = 3
    /\ Creates[3].ok
    /\ Len(proc.sdk) > 4

\* C28: setConfig(key, value) writes one field only: after a call that
\* returned, getConfig returns value for key and, for every other field,
\* what it returned before the call; a call the schema rejected wrote
\* nothing.
C28_SetConfigWritesOneField ==
    call.op = "setConfig" =>
        IF call.threw THEN store = call.before
        ELSE /\ getConfig(store)[call.key] = call.arg
             /\ \A k \in ConfigKeys \ {call.key} :
                   /\ getConfig(store)[k] = getConfig(call.before)[k]
                   /\ ConfGet(store, k) = ConfGet(call.before, k)

\* C28 witness: setConfig wrote a default project into a store that held
\* an API key and an output format other than the default.
C28_Witness ==
    /\ call.op = "setConfig"
    /\ ~call.threw
    /\ call.key = "defaultProject"
    /\ Truthy(call.arg)
    /\ call.before["defaultProject"] # call.arg
    /\ Truthy(call.before["apiKey"])
    /\ call.before["outputFormat"] = FmtJson
    /\ getConfig(store).defaultProject = call.arg

\* the line of config show that reports the API key, without its label
ShownApiKey == Tail(proc.console[2].text)

\* C30: config show never prints the stored API key in full: for a
\* non-empty key it shows '***' and the last four characters of the key,
\* and at least one character of the key is withheld; for an empty key it
\* prints 'Not set'.
C30_KeyNeverShownInFull ==
    proc.cmd = "config show" =>
        LET apiKey == getConfig(store).apiKey
        IN  IF apiKey = <<>> THEN ShownApiKey = <<"Not set">>
            ELSE /\ ShownApiKey = Mask \o SliceLast(apiKey, shownTail)
                 /\ Len(ShownApiKey) - Len(Mask) < Len(apiKey)
                 /\ ~Includes(ShownApiKey, apiKey)

\* C27: running the CLI with --help or with --version exits with code 0,
\* whatever the version string of the package is, and every other error
\* that reaches the catch block of index.ts exits with code 1.
C27_HelpAndVersionExitZero ==
    proc.pc = "exited" /\ proc.packageVersion # Undefined =>
        IF proc.argv \in {<<"--help">>, <<"--version">>} THEN proc.exitCode = 0
        ELSE proc.exitCode = 1

(***************************************************************************)
(* Claims about deploy create, deploy from-chat, the delete commands and  *)
(* config clear.                                                           *)
(***************************************************************************)
\* the command has returned or exited
Ended == proc.pc \in {"done", "exited"}

\* the calls of v0.deployments.create the command has made
DeployCalls == SelectSeq(proc.sdk, LAMBDA c : c.op = "deployments.create")

\* the prompts shown other than the API key prompt of ensureApiKey
SelectionPrompts ==
    SelectSeq(proc.console,
              LAMBDA entry : entry.kind = "prompt" /\ entry.text # <<"Enter your v0 API key:">>)

\* deploy create was given the three ids and not --interactive
AllIdsGiven ==
    /\ proc.cmd = "deploy create"
    /\ Truthy(proc.opts.projectId)
    /\ Truthy(proc.opts.chatId)
    /\ Truthy(proc.opts.versionId)
    /\ ~proc.opts.interactive

\* C24: deploy create given a project id, a chat id and a version id and
\* not --interactive makes one call to the SDK, deployments.create with
\* exactly those three ids, asks for no selection and lists neither projects
\* nor chats (it ends without the call only when ensureApiKey failed to
\* obtain an API key); and in every execution of deploy create each call of
\* deployments.create carries a project id, a chat id and a version id.
C24_CreateWithGivenIds ==
    /\ AllIdsGiven =>
          /\ proc.asked = <<>>
          /\ SelectionPrompts = <<>>
          /\ Len(proc.sdk) <= 1
          /\ \A i \in 1..Len(proc.sdk) :
                /\ proc.sdk[i].op = "deployments.create"
                /\ proc.sdk[i].projectId = proc.opts.projectId
                /\ proc.sdk[i].chatId = proc.opts.chatId
                /\ proc.sdk[i].versionId = proc.opts.versionId
          /\ proc.pc = "done" => Len(proc.sdk) = 1 /\ proc.sdk[1].ok
          /\ proc.pc = "exited" /\ proc.sdk = <<>> =>
                proc.console[Len(proc.console)] = error(FailedTo(proc.cmd) \o <<"prompt">>)
    /\ proc.cmd = "deploy create" =>
          \A i \in 1..Len(DeployCalls) :
              /\ Truthy(DeployCalls[i].projectId)
              /\ Truthy(DeployCalls[i].chatId)
              /\ Truthy(DeployCalls[i].versionId)

\* C24 witness: deploy create p c 9 on a store with another default project
\* has created the deployment with its one call.
C24_Witness ==
    /\ AllIdsGiven
    /\ proc.pc = "done"
    /\ getConfig(store).defaultProject = <<"q">>
    /\ Len(proc.sdk) = 1
    /\ proc.sdk[1].projectId = <<"p">>
    /\ proc.sdk[1].versionId = GivenVersion

\* the reads of a project the command has made
ProjectReads == SelectSeq(proc.sdk, LAMBDA c : c.op = "projects.getById")

\* C29: deploy from-chat calls deployments.create only right after a read
\* of that project that returned it with its vercelProjectId set, whichever
\* way the project was selected; and when it ends without having called
\* deployments.create, among others because no linked project was obtained,
\* the exit code is 1.
C29_DeploysToLinkedProjectOnly ==
    proc.cmd = "deploy from-chat" =>
        /\ \A i \in 1..Len(proc.sdk) :
              proc.sdk[i].op = "deployments.create" =>
                  /\ i > 1
                  /\ proc.sdk[i - 1].op = "projects.getById"
                  /\ proc.sdk[i - 1].ok
                  /\ Truthy(proc.sdk[i - 1].returned)
                  /\ proc.sdk[i - 1].projectId = proc.sdk[i].projectId
        /\ Ended /\ DeployCalls = <<>> => proc.exitCode = 1 /\ ~proc.deployed
        /\ proc.pc = "createDeployment" =>
              Truthy(ProjectReads[Len(ProjectReads)].returned)

\* C29 witness: the selected project and the default project were read as
\* not linked, the project picked at the prompt was read as linked, and the
\* deployment was created for it.
C29_Witness ==
    /\ proc.cmd = "deploy from-chat"
    /\ proc.pc = "done"
    /\ Len(ProjectReads) = 3
    /\ ~Truthy(ProjectReads[1].returned)
    /\ ~Truthy(ProjectReads[2].returned)
    /\ Len(DeployCalls) = 1
    /\ DeployCalls[1].projectId = proc.loc.answer

\* the project the precedence rule of deploy from-chat selects:
\* --project-id, else the project matched by --project-name, else the
\* project of the chat, else the default project
Precedence ==
    IF Truthy(proc.opts.projectId) THEN proc.opts.projectId
    ELSE IF Truthy(proc.opts.projectName) THEN proc.loc.match
    ELSE IF Truthy(proc.loc.chatProjectId) THEN proc.loc.chatProjectId
    ELSE proc.storeAsked["defaultProject"]

\* the read of the chat deploy from-chat deploys
ChatRead == SelectSeq(proc.sdk, LAMBDA c : c.op = "chats.getById")[1]

\* deploy from-chat has called deployments.create with the chat it was
\* given or that was selected, and the latest version id read from it
DeploysChat ==
    /\ Len(DeployCalls) = 1
    /\ DeployCalls[1].chatId = ChatRead.chatId
    /\ Truthy(proc.opts.chatId) => DeployCalls[1].chatId = proc.opts.chatId
    /\ DeployCalls[1].versionId = ChatRead.returned

\* C23 as stated: deploy from-chat calls deployments.create with the chat
\* id, the latest version id of the chat and the project --project-id
\* names, else the project matched by --project-name, else the project of
\* the chat, else the default project.
C23_DeploysToSelectedProject ==
    proc.cmd = "deploy from-chat" /\ DeployCalls # <<>> =>
        /\ DeploysChat
        /\ DeployCalls[1].projectId = Precedence

\* C23 amended: deploy from-chat calls deployments.create with the chat
\* id, the latest version id of the chat and a project: the first project
\* it reads is the one the precedence rule selects, and it deploys to that
\* project when the read shows it linked to Vercel; when it does not, it
\* deploys to the default project or to the project picked at the prompt.
C23_DeploysToSelectedIfLinked ==
    proc.cmd = "deploy from-chat" =>
        /\ ProjectReads # <<>> => ProjectReads[1].projectId = Precedence
        /\ DeployCalls # <<>> =>
              /\ DeploysChat
              /\ IF Truthy(ProjectReads[1].returned)
                 THEN DeployCalls[1].projectId = Precedence
                 ELSE /\ Len(ProjectReads) > 1
                      /\ DeployCalls[1].projectId \in
                            {proc.storeAsked["defaultProject"], proc.loc.answer}

\* C23 witness: deploy from-chat c --project-id p, with the chat in no
\* project and q the default project, read p as linked and deployed to p.
C23_Witness ==
    /\ proc.cmd = "deploy from-chat"
    /\ proc.pc = "done"
    /\ proc.opts.chatId = <<"c">>
    /\ proc.opts.projectId = <<"p">>
    /\ proc.storeAsked["defaultProject"] = <<"q">>
    /\ Len(ProjectReads) = 1
    /\ DeployCalls # <<>>
    /\ DeployCalls[1].projectId = <<"p">>
    /\ DeployCalls[1].chatId = <<"c">>
    /\ Truthy(DeployCalls[1].versionId)

\* the delete calls the command has made to the SDK
DeleteCalls ==
    SelectSeq(proc.sdk,
              LAMBDA c : c.op \in {"chats.delete", "deployments.delete", "hooks.delete"})

\* the confirm prompt was answered no
Declined == proc.asked = <<"confirm", "no">>

\* the command has deleted something: a delete call was made, or the store
\* was cleared
DeletionDone ==
    \/ DeleteCalls # <<>>
    \/ proc.cleared
    \/ proc.cmd = "config clear" /\ store # proc.storeAsked

\* C25: chat delete, deploy delete, hook delete and config clear make the
\* delete call, or clear the store, only when --force was given or the
\* confirm prompt was answered yes; when the answer is no, no delete call is
\* made, the store is as it was when the question was asked (for config
\* clear: as it was when the command started), and the command returns with
\* exit code 0 and without an error.
C25_DestructiveNeedsConsent ==
    proc.cmd \in Destructive =>
        /\ DeletionDone => proc.opts.force \/ proc.asked = <<"confirm", "yes">>
        /\ proc.opts.force => proc.asked = <<>>
        /\ Declined =>
              /\ DeleteCalls = <<>>
              /\ ~proc.cleared
              /\ store = proc.storeAsked
              /\ proc.pc = "done"
              /\ proc.exitCode = 0
              /\ ~proc.failed
              /\ \A i \in 1..Len(proc.console) : proc.console[i].stream # "stderr"

\* C25 witness: config clear was declined on a store holding an API key
\* and a default project, and the store is unchanged.
C25_Witness ==
    /\ proc.cmd = "config clear"
    /\ Declined
    /\ proc.pc = "done"
    /\ store["apiKey"] = <<"s">>
    /\ store["defaultProject"] = <<"q">>

\* the lines written by the error helper
ErrorLines ==
    SelectSeq(proc.console,
              LAMBDA entry : entry.kind = "text" /\ entry.text # <<>>
                             /\ Head(entry.text) = GlyphError)

\* the lines written by the success helper
SuccessLines ==
    SelectSeq(proc.console,
              LAMBDA entry : entry.kind = "text" /\ entry.text # <<>>
                             /\ Head(entry.text) = GlyphSuccess)

\* the command is one of those that call the SDK, or config clear
IsOp == proc.cmd \in OpsCommands \cup {"config clear"}

\* an SDK call of the command failed: the command prints an error to
\* standard error, no success message, and exits with code 1
SdkFailureReported ==
    proc.sdkError =>
        /\ proc.pc = "exited"
        /\ proc.exitCode = 1
        /\ ~proc.sdk[Len(proc.sdk)].ok
        /\ Len(ErrorLines) = 1
        /\ ErrorLines[1] = error(FailedTo(proc.cmd) \o SdkErrorMessage)
        /\ ErrorLines[1].stream = "stderr"
        /\ SuccessLines = <<>>

\* C26 as stated: a command exits with code 1, after an error on standard
\* error and no success message, whenever an SDK call fails, and with code
\* 0 otherwise.
C26_ExitCodeFollowsSdk ==
    IsOp /\ Ended =>
        /\ SdkFailureReported
        /\ ~proc.sdkError => proc.exitCode = 0

\* C26 amended: a command exits with code 1, after an error on standard
\* error and no success message, whenever an SDK call fails; when no SDK
\* call fails its exit code is 1 if it reported an error of its own (a name
\* that matches nothing, nothing to select from, a chat without version, no
\* project, a project not linked, an API key prompt that failed) and 0 if
\* it reported none.
C26_ExitCodeFollowsErrors ==
    IsOp =>
        /\ SdkFailureReported
        /\ \A i \in 1..Len(proc.sdk) : ~proc.sdk[i].ok => proc.sdkError
        /\ Ended => proc.exitCode = (IF ErrorLines = <<>> THEN 0 ELSE 1)
        /\ ErrorLines # <<>> => proc.pc = "exited"

\* C26 witness: deploy from-chat selected its chat by name, read it, and
\* the read of the project was rejected.
C26_Witness ==
    /\ proc.cmd = "deploy from-chat"
    /\ proc.sdkError
    /\ proc.pc = "exited"
    /\ Len(proc.sdk) = 3
    /\ proc.sdk[3].op = "projects.getById"
    /\ proc.exitCode = 1

====
